---- MODULE Spec2Model ----
(***************************************************************************)
(* Predicate evaluation and filtered match iteration of the tree-sitter    *)
(* query binding (query.go): NewQuery and the predicate handlers,          *)
(* QueryMatch.satisfiesTextPredicate, QueryMatches.Next and                *)
(* QueryCaptures.Next over a QueryCursor.                                  *)
(***************************************************************************)
EXTENDS Integers, Sequences, FiniteSets, TLC

VARIABLES
    pc,         \* position of the modelled caller
    query,      \* the compiled Query the streams and the evaluator read
    predicate,  \* the TextPredicateCapture handed to condition
    qm,         \* the QueryMatch under evaluation
    ok,         \* result of condition / satisfiesTextPredicate
    evaluated,  \* indices of the predicates condition was called on, in order
    cursor,     \* QueryCursor: the native cursor's pending matches
    stream,     \* which stream was created on the cursor
    trace,      \* calls made on the cursor and values returned by Next
    input,      \* what the native query compiler hands to NewQuery
    result,     \* what NewQuery returned
    streams,    \* two streams on cursors of their own over the one query
    iter,       \* an Iterator, the tree it walks and what Next has returned
    parser      \* a Parser, the contexts of its parses and their goroutines

vars ==
    <<pc, query, predicate, qm, ok, evaluated, cursor, stream, trace,
      input, result, streams, iter, parser>>

----------------------------------------------------------------------------
(* Bounds *)

MaxCaptures == 2    \* captures per match
MaxPreds == 2       \* text predicates per pattern
MaxCands == 2       \* candidate matches the cursor holds
MaxBudget == 3      \* cursor pulls before the cursor's timeout fires
MaxNext == 4        \* Next calls on one stream
MaxArgs == 3        \* arguments of one predicate
MaxText == 3        \* bytes of pattern text
MaxParses == 2      \* parses on one parser
MaxNodes == 4       \* nodes of the tree an Iterator walks

----------------------------------------------------------------------------
(* Source bytes and nodes *)

\* text []byte handed to Matches / Captures
SourceText == <<"a", "b", "a", "b">>

\* Node: StartByte / EndByte of the nodes of the tree
Node(s, e) == [start |-> s, end |-> e]

Nodes == {Node(0, 1), Node(1, 2), Node(2, 3), Node(0, 2)}

\* text[node.StartByte():node.EndByte()]
NodeText(node) == SubSeq(SourceText, node.start + 1, node.end)

Literals == {<<"a">>, <<"b">>}

CaptureIDs == {0, 1}

PatternIndexes == {0, 1}

----------------------------------------------------------------------------
(* Sequences up to a length *)

SeqUpTo(S, n) == UNION {[1..k -> S] : k \in 0..n}

----------------------------------------------------------------------------
(* Regular expressions: literal patterns, anchored (^lit$) or not *)

Regexes == [anchored : BOOLEAN, lit : Literals]

NoRegex == [anchored |-> FALSE, lit |-> <<>>]

Contains(t, lit) ==
    \E i \in 0..(Len(t) - Len(lit)) : SubSeq(t, i + 1, i + Len(lit)) = lit

\* r.Match(nodeText)
RegexMatch(r, t) == IF r.anchored THEN t = r.lit ELSE Contains(t, r.lit)

----------------------------------------------------------------------------
(* TextPredicateCapture *)

TextPredicateTypeEqCapture == 0
TextPredicateTypeEqString == 1
TextPredicateTypeMatchString == 2
TextPredicateTypeAnyString == 3

\* Value any: the field of the dynamic type in use carries the value
NoValue == [capture |-> 0, str |-> <<>>, regex |-> NoRegex, strs |-> <<>>]

TextPredicateCapture(type, id, value, positive, matchAll) ==
    [Type |-> type, CaptureID |-> id, Value |-> value,
     Positive |-> positive, MatchAllNodes |-> matchAll]

EqCapturePreds ==
    {TextPredicateCapture(TextPredicateTypeEqCapture, i,
                          [NoValue EXCEPT !.capture = j], p, a) :
        i \in CaptureIDs, j \in CaptureIDs, p \in BOOLEAN, a \in BOOLEAN}

EqStringPreds ==
    {TextPredicateCapture(TextPredicateTypeEqString, i,
                          [NoValue EXCEPT !.str = s], p, a) :
        i \in CaptureIDs, s \in Literals, p \in BOOLEAN, a \in BOOLEAN}

MatchStringPreds ==
    {TextPredicateCapture(TextPredicateTypeMatchString, i,
                          [NoValue EXCEPT !.regex = r], p, a) :
        i \in CaptureIDs, r \in Regexes, p \in BOOLEAN, a \in BOOLEAN}

\* assertPredAny always sets MatchAllNodes
AnyStringPreds ==
    {TextPredicateCapture(TextPredicateTypeAnyString, i,
                          [NoValue EXCEPT !.strs = v], p, TRUE) :
        i \in CaptureIDs, v \in SeqUpTo(Literals, 2), p \in BOOLEAN}

TextPredicates ==
    EqCapturePreds \cup EqStringPreds \cup MatchStringPreds \cup AnyStringPreds

----------------------------------------------------------------------------
(* QueryMatch *)

QueryCapture(node, index) == [Node |-> node, Index |-> index]

QueryCaptureSet == {QueryCapture(n, i) : n \in Nodes, i \in CaptureIDs}

QueryMatch(id, pattern, captures) ==
    [ID |-> id, PatternIndex |-> pattern, Captures |-> captures]

\* the nil *QueryMatch
Nil == QueryMatch(-1, 0, <<>>)

RECURSIVE NodesForCaptureIndex(_, _)
NodesForCaptureIndex(captures, captureIndex) ==
    IF captures = <<>> THEN <<>>
    ELSE LET capture == Head(captures)
             rest == NodesForCaptureIndex(Tail(captures), captureIndex)
         IN  IF capture.Index = captureIndex
             THEN <<capture.Node>> \o rest
             ELSE rest

----------------------------------------------------------------------------
(* Query: the per-pattern predicate lists *)

\* a nil pointer is <<>>, a set pointer <<v>>
QueryProperty(key, value, captureID) ==
    [Key |-> key, Value |-> value, CaptureID |-> captureID]

PropertyPredicate(property, positive) ==
    [Property |-> property, Positive |-> positive]

QueryPredicateArg(captureID, string) ==
    [CaptureID |-> captureID, String |-> string]

QueryPredicate(operator, args) == [Operator |-> operator, Args |-> args]

Query(names, text, propPreds, settings, general) ==
    [captureNames |-> names,
     TextPredicates |-> text,
     propertyPredicates |-> propPreds,
     propertySettings |-> settings,
     generalPredicates |-> general]

----------------------------------------------------------------------------
(* Predicate steps, the query's string and capture tables *)

QueryPredicateStepTypeDone == 0
QueryPredicateStepTypeCapture == 1
QueryPredicateStepTypeString == 2

QueryPredicateStep(type, valueID) == [Type |-> type, ValueID |-> valueID]

Done == QueryPredicateStep(QueryPredicateStepTypeDone, 0)

\* q.StringValueForID(i), i = 0, 1, ...: a string is a sequence of symbols
stringValues ==
    << <<"eq?">>, <<"not-eq?">>, <<"any-eq?">>, <<"any-not-eq?">>,
       <<"match?">>, <<"not-match?">>, <<"any-match?">>, <<"any-not-match?">>,
       <<"any-of?">>, <<"not-any-of?">>, <<"set!">>, <<"is?">>, <<"is-not?">>,
       <<"custom?">>, <<"a">>, <<"b">>, <<"^", "a", "$">>, <<"[">> >>

\* q.CaptureNameForID(i), i = 0, 1
captureNames == << <<"c">>, <<"d">> >>

\* the id of a string in the table
StringID(str) == (CHOOSE i \in 1..Len(stringValues) : stringValues[i] = str) - 1

strVal(steps, i) == stringValues[steps[i + 1].ValueID + 1]

cptVal(steps, i) == <<"@">> \o captureNames[steps[i + 1].ValueID + 1]

Itoa(n) == <<ToString(n)>>

Quote(str) == <<"\"">> \o str \o <<"\"">>

----------------------------------------------------------------------------
(* Errors *)

ErrPredicateBase == <<"predicate error">>
ErrPredicateArgsWrongCount == ErrPredicateBase \o <<": wrong arguments #">>
ErrPredicateInvalidArg == ErrPredicateBase \o <<": invalid argument">>
ErrPredicateWrongStart == ErrPredicateBase \o <<": must begin with a literal value">>
ErrPredicateWrongType == ErrPredicateBase \o <<": invalid type">>
ErrPredicateRegex == ErrPredicateBase \o <<": invalid regex">>

\* errors.Is on chains built with %w: the target is a prefix of the chain
Is(err, target) ==
    Len(target) > 0 /\ Len(err) >= Len(target) /\ SubSeq(err, 1, Len(target)) = target

QueryErrorNone == 0
QueryErrorSyntax == 1
QueryErrorNodeType == 2
QueryErrorField == 3
QueryErrorCapture == 4
QueryErrorStructure == 5
QueryErrorLanguage == 6
QueryErrorPredicate == 100

\* UINT32_MAX, written as the signed 32-bit integer of the same bits
maxUint32 == -1

QueryError(inner, message, offset, kind, row, column) ==
    [inner |-> inner, Message |-> message, Offset |-> offset, Kind |-> kind,
     Row |-> row, Column |-> column]

\* the nil error
NoError == QueryError(<<>>, <<>>, 0, 0, 0, 0)

pErr(err, row, msg) == QueryError(err, msg, 0, QueryErrorPredicate, row, 0)

----------------------------------------------------------------------------
(* regexp.Compile on the patterns of the string table *)

\* an unclosed bracket is a syntax error; ^lit$ is anchored at both ends
regexpCompile(str) ==
    IF \E i \in 1..Len(str) : str[i] = "["
    THEN [regex |-> NoRegex, err |-> <<"error parsing regexp: missing closing ]">>]
    ELSE IF Len(str) >= 2 /\ str[1] = "^" /\ str[Len(str)] = "$"
         THEN [regex |-> [anchored |-> TRUE, lit |-> SubSeq(str, 2, Len(str) - 1)],
               err |-> <<>>]
         ELSE [regex |-> [anchored |-> FALSE, lit |-> str], err |-> <<>>]

----------------------------------------------------------------------------
(* Step count and step type assertions *)

\* assertStepCount taking an exact count for a lower limit
assertStepCountAtLeast(op, row, exp, act, opts) ==
    IF act < (IF exp < 0 THEN -exp ELSE exp)
    THEN pErr(ErrPredicateArgsWrongCount, row,
              op \o <<" (expected ">> \o Itoa(exp) \o <<", got ">> \o Itoa(act)
                 \o <<")">>)
    ELSE NoError

\* opts is <<>> or <<exp2>>
assertStepCount(op, row, exp, act, opts) ==
    IF Len(opts) > 0
    THEN IF act < exp \/ act > opts[1]
         THEN pErr(ErrPredicateArgsWrongCount, row,
                   op \o <<" (expected [">> \o Itoa(exp) \o <<"..">> \o Itoa(opts[1])
                      \o <<"], got ">> \o Itoa(act) \o <<")">>)
         ELSE NoError
    ELSE IF exp < 0
         THEN IF act < -exp
              THEN pErr(ErrPredicateArgsWrongCount, row,
                        op \o <<" (expected at least ">> \o Itoa(-exp)
                           \o <<", got ">> \o Itoa(act) \o <<")">>)
              ELSE NoError
         ELSE IF act # exp
              THEN pErr(ErrPredicateArgsWrongCount, row,
                        op \o <<" (expected ">> \o Itoa(exp)
                           \o <<", got ">> \o Itoa(act) \o <<")">>)
              ELSE NoError

assertStepType(op, val, argNo, row, actualType, acceptedType) ==
    LET failCond == IF acceptedType < 0 THEN actualType = -acceptedType
                    ELSE actualType # acceptedType
        b == IF acceptedType < 0 THEN -acceptedType ELSE acceptedType
        be == IF acceptedType < 0 THEN <<"NOT be">> ELSE <<"be">>
    IN  IF failCond
        THEN pErr(ErrPredicateWrongType, row,
                  op \o <<" (arg #">> \o Itoa(argNo) \o <<" must ">> \o be
                     \o <<" a ">> \o Itoa(b) \o <<", got ">> \o Itoa(actualType)
                     \o <<" ">> \o Quote(val) \o <<")">>)
        ELSE NoError

----------------------------------------------------------------------------
(* The predicate handlers *)

\* a value of type any: its dynamic type and the value
AnyVal(type, v) == [type |-> type, v |-> v]

NilAny == AnyVal("nil", <<>>)

\* what a Predicator returns
Ret(x, err) == [x |-> x, err |-> err]

ZeroTextPredicateCapture ==
    AnyVal("TextPredicateCapture",
        TextPredicateCapture(TextPredicateTypeEqCapture, 0, NoValue, FALSE, FALSE))

ZeroQueryProperty == AnyVal("QueryProperty", QueryProperty(<<>>, <<>>, <<>>))

assertPredEq(q, steps, op, row) ==
    LET e1 == assertStepCount(op, row, 2, Len(steps) - 1, <<>>)
    IN  IF e1 # NoError THEN Ret(NilAny, e1)
        ELSE
        LET e2 == assertStepType(op, strVal(steps, 1), 1, row, steps[2].Type,
                                 QueryPredicateStepTypeCapture)
            isPositive == op = <<"eq?">> \/ op = <<"any-eq?">>
            matchAll == op = <<"eq?">> \/ op = <<"not-eq?">>
        IN  IF e2 # NoError THEN Ret(NilAny, e2)
            ELSE IF steps[3].Type = QueryPredicateStepTypeCapture
            THEN Ret(AnyVal("TextPredicateCapture",
                         TextPredicateCapture(TextPredicateTypeEqCapture,
                             steps[2].ValueID,
                             [NoValue EXCEPT !.capture = steps[3].ValueID],
                             isPositive, matchAll)), NoError)
            ELSE Ret(AnyVal("TextPredicateCapture",
                         TextPredicateCapture(TextPredicateTypeEqString,
                             steps[2].ValueID,
                             [NoValue EXCEPT !.str = strVal(steps, 2)],
                             isPositive, matchAll)), NoError)

\* assertPredMatch leaving a regex that does not compile to the evaluation
assertPredMatchLazy(q, steps, op, row) ==
    LET e1 == assertStepCount(op, row, 2, Len(steps) - 1, <<>>)
    IN  IF e1 # NoError THEN Ret(NilAny, e1)
        ELSE
        LET e2 == assertStepType(op, strVal(steps, 1), 1, row, steps[2].Type,
                                 QueryPredicateStepTypeCapture)
            e3 == assertStepType(op, cptVal(steps, 2), 2, row, steps[3].Type,
                                 -QueryPredicateStepTypeCapture)
            isPositive == op = <<"match?">> \/ op = <<"any-match?">>
            matchAll == op = <<"match?">> \/ op = <<"not-match?">>
            c == regexpCompile(strVal(steps, 2))
        IN  IF e2 # NoError THEN Ret(NilAny, e2)
            ELSE IF e3 # NoError THEN Ret(NilAny, e3)
            ELSE Ret(AnyVal("TextPredicateCapture",
                         TextPredicateCapture(TextPredicateTypeMatchString,
                             steps[2].ValueID,
                             [NoValue EXCEPT !.regex = c.regex],
                             isPositive, matchAll)), NoError)

assertPredMatch(q, steps, op, row) ==
    LET e1 == assertStepCount(op, row, 2, Len(steps) - 1, <<>>)
    IN  IF e1 # NoError THEN Ret(NilAny, e1)
        ELSE
        LET e2 == assertStepType(op, strVal(steps, 1), 1, row, steps[2].Type,
                                 QueryPredicateStepTypeCapture)
            e3 == assertStepType(op, cptVal(steps, 2), 2, row, steps[3].Type,
                                 -QueryPredicateStepTypeCapture)
            isPositive == op = <<"match?">> \/ op = <<"any-match?">>
            matchAll == op = <<"match?">> \/ op = <<"not-match?">>
            c == regexpCompile(strVal(steps, 2))
        IN  IF e2 # NoError THEN Ret(NilAny, e2)
            ELSE IF e3 # NoError THEN Ret(NilAny, e3)
            ELSE IF c.err # <<>>
            THEN Ret(ZeroTextPredicateCapture,
                     pErr(ErrPredicateRegex \o <<": ">> \o c.err, row, <<>>))
            ELSE Ret(AnyVal("TextPredicateCapture",
                         TextPredicateCapture(TextPredicateTypeMatchString,
                             steps[2].ValueID,
                             [NoValue EXCEPT !.regex = c.regex],
                             isPositive, matchAll)), NoError)

\* assertPredAnyLoop keeping the last literal only
RECURSIVE assertPredAnyLoopLast(_, _, _, _, _)
assertPredAnyLoopLast(q, steps, row, i, values) ==
    IF i + 2 >= Len(steps) THEN [values |-> values, err |-> NoError]
    ELSE LET arg == steps[i + 3]
         IN  IF arg.Type = QueryPredicateStepTypeCapture
             THEN [values |-> values,
                   err |-> pErr(ErrPredicateWrongType, row, <<"#", "any-of?">>)]
             ELSE assertPredAnyLoopLast(q, steps, row, i + 1,
                                        <<strVal(steps, i + 2)>>)

\* for i, arg := range steps[2:]
RECURSIVE assertPredAnyLoop(_, _, _, _, _)
assertPredAnyLoop(q, steps, row, i, values) ==
    IF i + 2 >= Len(steps) THEN [values |-> values, err |-> NoError]
    ELSE LET arg == steps[i + 3]
         IN  IF arg.Type = QueryPredicateStepTypeCapture
             THEN [values |-> values,
                   err |-> pErr(ErrPredicateWrongType, row,
                               <<"#", "any-of?",
                                 " predicate must be literals, got capture ", "@">>
                                   \o q.captureNames[arg.ValueID + 1])]
             ELSE assertPredAnyLoop(q, steps, row, i + 1,
                                    Append(values, strVal(steps, i + 2)))

assertPredAny(q, steps, op, row) ==
    LET e1 == assertStepCount(op, row, -2, Len(steps) - 1, <<>>)
    IN  IF e1 # NoError THEN Ret(NilAny, e1)
        ELSE
        LET e2 == assertStepType(op, strVal(steps, 1), 1, row, steps[2].Type,
                                 QueryPredicateStepTypeCapture)
            isPositive == op = <<"any-of?">>
            l == assertPredAnyLoop(q, steps, row, 0, <<>>)
        IN  IF e2 # NoError THEN Ret(NilAny, e2)
            ELSE IF l.err # NoError THEN Ret(ZeroTextPredicateCapture, l.err)
            ELSE Ret(AnyVal("TextPredicateCapture",
                         TextPredicateCapture(TextPredicateTypeAnyString,
                             steps[2].ValueID,
                             [NoValue EXCEPT !.strs = l.values],
                             isPositive, TRUE)), NoError)

\* for i, step := range steps[1:]; a nil pointer is <<>>, a set one <<v>>
RECURSIVE parsePropertyLoop(_, _, _, _, _, _, _, _)
parsePropertyLoop(steps, row, functionName, names, i, captureID, key, value) ==
    IF i + 1 >= Len(steps)
    THEN IF key = <<>>
         THEN Ret(ZeroQueryProperty,
                  pErr(ErrPredicateInvalidArg, row,
                       functionName \o <<" (missing key argument)">>))
         ELSE Ret(AnyVal("QueryProperty", QueryProperty(key[1], value, captureID)),
                  NoError)
    ELSE LET step == steps[i + 2]
         IN  IF step.Type = QueryPredicateStepTypeCapture
             THEN IF captureID # <<>>
                  THEN Ret(ZeroQueryProperty,
                           pErr(ErrPredicateInvalidArg, row,
                                functionName \o <<" (unexpected capture #2 name @">>
                                    \o names[step.ValueID + 1] \o <<")">>))
                  ELSE parsePropertyLoop(steps, row, functionName, names, i + 1,
                                         <<step.ValueID>>, key, value)
             ELSE IF key = <<>>
             THEN parsePropertyLoop(steps, row, functionName, names, i + 1,
                                    captureID, <<strVal(steps, i + 1)>>, value)
             ELSE IF value = <<>>
             THEN parsePropertyLoop(steps, row, functionName, names, i + 1,
                                    captureID, key, <<strVal(steps, i + 1)>>)
             ELSE Ret(ZeroQueryProperty,
                      pErr(ErrPredicateInvalidArg, row,
                           functionName \o <<" (unexpected argument #3 @">>
                               \o strVal(steps, i + 1) \o <<")">>))

parseProperty(steps, row, functionName, names) ==
    parsePropertyLoop(steps, row, functionName, names, 0, <<>>, <<>>, <<>>)

assertPredSet(q, steps, op, row) ==
    LET e1 == assertStepCount(op, row, 1, Len(steps) - 1, <<3>>)
    IN  IF e1 # NoError THEN Ret(NilAny, e1)
        ELSE parseProperty(steps, row, op, q.captureNames)

\* assertPredIs with Positive set for is-not? too
assertPredIsPositive(q, steps, op, row) ==
    LET ret == assertPredSet(q, steps, op, row)
    IN  IF ret.err # NoError THEN Ret(NilAny, ret.err)
        ELSE Ret(AnyVal("PropertyPredicate", PropertyPredicate(ret.x.v, TRUE)),
                 NoError)

assertPredIs(q, steps, op, row) ==
    LET ret == assertPredSet(q, steps, op, row)
    IN  IF ret.err # NoError THEN Ret(NilAny, ret.err)
        ELSE Ret(AnyVal("PropertyPredicate",
                     PropertyPredicate(ret.x.v, op = <<"is?">>)), NoError)

\* for i, a := range steps[1:]
RECURSIVE assertPredDefaultLoop(_, _, _)
assertPredDefaultLoop(steps, i, args) ==
    IF i + 1 >= Len(steps) THEN args
    ELSE LET a == steps[i + 2]
         IN  IF a.Type = QueryPredicateStepTypeCapture
             THEN assertPredDefaultLoop(steps, i + 1,
                      Append(args, QueryPredicateArg(<<a.ValueID>>, <<>>)))
             ELSE assertPredDefaultLoop(steps, i + 1,
                      Append(args, QueryPredicateArg(<<>>, <<strVal(steps, i + 1)>>)))

\* assertPredDefault wanting at least one argument
assertPredDefaultChecked(q, steps, op, row) ==
    LET e1 == assertStepCount(op, row, -1, Len(steps) - 1, <<>>)
    IN  IF e1 # NoError THEN Ret(NilAny, e1)
        ELSE Ret(AnyVal("QueryPredicate",
                     QueryPredicate(op, assertPredDefaultLoop(steps, 0, <<>>))),
                 NoError)

assertPredDefault(q, steps, op, row) ==
    Ret(AnyVal("QueryPredicate",
            QueryPredicate(op, assertPredDefaultLoop(steps, 0, <<>>))), NoError)

----------------------------------------------------------------------------
(* NewQuery and fromRawParts *)

catchall == <<"default">>

\* the registry: the handler registered under a name, "nil" if none
predicators(op) ==
    CASE op \in {<<"eq?">>, <<"not-eq?">>, <<"any-eq?">>, <<"any-not-eq?">>}
            -> "assertPredEq"
      [] op \in {<<"match?">>, <<"not-match?">>, <<"any-match?">>,
                 <<"any-not-match?">>}
            -> "assertPredMatch"
      [] op \in {<<"any-of?">>, <<"not-any-of?">>} -> "assertPredAny"
      [] op = <<"set!">> -> "assertPredSet"
      [] op \in {<<"is?">>, <<"is-not?">>} -> "assertPredIs"
      [] op = catchall -> "assertPredDefault"
      [] OTHER -> "nil"

\* fn(q, steps, op, row, strVal, cptVal)
Call(fn, q, steps, op, row) ==
    CASE fn = "assertPredEq" -> assertPredEq(q, steps, op, row)
      [] fn = "assertPredMatch" -> assertPredMatch(q, steps, op, row)
      [] fn = "assertPredAny" -> assertPredAny(q, steps, op, row)
      [] fn = "assertPredSet" -> assertPredSet(q, steps, op, row)
      [] fn = "assertPredIs" -> assertPredIs(q, steps, op, row)
      [] fn = "assertPredDefault" -> assertPredDefault(q, steps, op, row)

\* splitLoop dropping an empty run
RECURSIVE splitLoopSkipEmpty(_, _, _, _)
splitLoopSkipEmpty(steps, i, out, curr) ==
    IF i > Len(steps)
    THEN IF Len(curr) > 0 THEN Append(out, curr) ELSE out
    ELSE IF steps[i].Type = QueryPredicateStepTypeDone
         THEN splitLoopSkipEmpty(steps, i + 1,
                                 IF Len(curr) > 0 THEN Append(out, curr) ELSE out,
                                 <<>>)
         ELSE splitLoopSkipEmpty(steps, i + 1, out, Append(curr, steps[i]))

RECURSIVE splitLoop(_, _, _, _)
splitLoop(steps, i, out, curr) ==
    IF i > Len(steps)
    THEN IF Len(curr) > 0 THEN Append(out, curr) ELSE out
    ELSE IF steps[i].Type = QueryPredicateStepTypeDone
         THEN splitLoop(steps, i + 1, Append(out, curr), <<>>)
         ELSE splitLoop(steps, i + 1, out, Append(curr, steps[i]))

split(steps) == splitLoop(steps, 1, <<>>, <<>>)

\* c is the native query: per pattern its flat steps and its start byte
PatternCount(c) == Len(c.patterns)

PredicatesForPattern(c, patternIndex) == split(c.patterns[patternIndex + 1].steps)

StartByteForPattern(c, i) == c.patterns[i + 1].startByte

\* rowLoop counting the newlines of the whole text
RECURSIVE rowLoopWhole(_, _, _, _)
rowLoopWhole(pattern, byteOffset, i, row) ==
    IF i >= Len(pattern) THEN row
    ELSE rowLoopWhole(pattern, byteOffset, i + 1,
                      IF pattern[i + 1] = "\n" THEN row + 1 ELSE row)

\* for i, c := range pattern, i from 0
RECURSIVE rowLoop(_, _, _, _)
rowLoop(pattern, byteOffset, i, row) ==
    IF i >= Len(pattern) \/ i >= byteOffset THEN row
    ELSE rowLoop(pattern, byteOffset, i + 1,
                 IF pattern[i + 1] = "\n" THEN row + 1 ELSE row)

NoPredicateLists == [text |-> <<>>, props |-> <<>>, settings |-> <<>>, general |-> <<>>]

\* predicateLoopPrepend putting a predicate at the head of its list
RECURSIVE predicateLoopPrepend(_, _, _, _, _)
predicateLoopPrepend(q, predicateSteps, row, j, lists) ==
    IF j > Len(predicateSteps) THEN [lists |-> lists, err |-> NoError]
    ELSE
    LET steps == predicateSteps[j]
    IN  IF Len(steps) = 0 THEN predicateLoopPrepend(q, predicateSteps, row, j + 1, lists)
        ELSE IF steps[1].Type # QueryPredicateStepTypeString
        THEN [lists |-> lists,
              err |-> pErr(ErrPredicateWrongStart, row,
                          <<"got @">> \o q.captureNames[steps[1].ValueID + 1])]
        ELSE
        LET op == stringValues[steps[1].ValueID + 1]
            fn == IF predicators(op) = "nil" THEN predicators(catchall)
                  ELSE predicators(op)
            r == Call(fn, q, steps, op, row)
            v == r.x.v
        IN  IF r.err # NoError THEN [lists |-> lists, err |-> r.err]
            ELSE predicateLoopPrepend(q, predicateSteps, row, j + 1,
                   CASE r.x.type = "TextPredicateCapture" ->
                          [lists EXCEPT !.text = <<v>> \o @]
                     [] r.x.type = "PropertyPredicate" ->
                          [lists EXCEPT !.props = <<v>> \o @]
                     [] r.x.type = "QueryProperty" ->
                          [lists EXCEPT !.settings = <<v>> \o @]
                     [] r.x.type = "QueryPredicate" ->
                          [lists EXCEPT !.general = <<v>> \o @])

\* for _, steps := range predicateSteps
RECURSIVE predicateLoop(_, _, _, _, _)
predicateLoop(q, predicateSteps, row, j, lists) ==
    IF j > Len(predicateSteps) THEN [lists |-> lists, err |-> NoError]
    ELSE
    LET steps == predicateSteps[j]
    IN  IF Len(steps) = 0 THEN predicateLoop(q, predicateSteps, row, j + 1, lists)
        ELSE IF steps[1].Type # QueryPredicateStepTypeString
        THEN [lists |-> lists,
              err |-> pErr(ErrPredicateWrongStart, row,
                          <<"got @">> \o q.captureNames[steps[1].ValueID + 1])]
        ELSE
        LET op == stringValues[steps[1].ValueID + 1]
            fn == IF predicators(op) = "nil" THEN predicators(catchall)
                  ELSE predicators(op)
            r == Call(fn, q, steps, op, row)
            v == r.x.v
        IN  IF r.err # NoError THEN [lists |-> lists, err |-> r.err]
            ELSE predicateLoop(q, predicateSteps, row, j + 1,
                   CASE r.x.type = "TextPredicateCapture" ->
                          [lists EXCEPT !.text = Append(@, v)]
                     [] r.x.type = "PropertyPredicate" ->
                          [lists EXCEPT !.props = Append(@, v)]
                     [] r.x.type = "QueryProperty" ->
                          [lists EXCEPT !.settings = Append(@, v)]
                     [] r.x.type = "QueryPredicate" ->
                          [lists EXCEPT !.general = Append(@, v)])

\* patternLoop returning the query built so far along with the error
RECURSIVE patternLoopPartial(_, _, _, _)
patternLoopPartial(q, c, pattern, i) ==
    IF i >= PatternCount(c) THEN [q |-> <<q>>, err |-> NoError]
    ELSE
    LET r == predicateLoop(q, PredicatesForPattern(c, i),
                           rowLoop(pattern, StartByteForPattern(c, i), 0, 0), 1,
                           NoPredicateLists)
    IN  IF r.err # NoError THEN [q |-> <<q>>, err |-> r.err]
        ELSE patternLoopPartial(
                 [q EXCEPT !.TextPredicates = Append(@, r.lists.text),
                           !.propertyPredicates = Append(@, r.lists.props),
                           !.propertySettings = Append(@, r.lists.settings),
                           !.generalPredicates = Append(@, r.lists.general)],
                 c, pattern, i + 1)

\* for i := range q.PatternCount(); a nil *Query is <<>>, a set one <<q>>
RECURSIVE patternLoop(_, _, _, _)
patternLoop(q, c, pattern, i) ==
    IF i >= PatternCount(c) THEN [q |-> <<q>>, err |-> NoError]
    ELSE
    LET predicateSteps == PredicatesForPattern(c, i)
        byteOffset == StartByteForPattern(c, i)
        row == rowLoop(pattern, byteOffset, 0, 0)
        r == predicateLoop(q, predicateSteps, row, 1, NoPredicateLists)
    IN  IF r.err # NoError THEN [q |-> <<>>, err |-> r.err]
        ELSE patternLoop(
                 [q EXCEPT !.TextPredicates = Append(@, r.lists.text),
                           !.propertyPredicates = Append(@, r.lists.props),
                           !.propertySettings = Append(@, r.lists.settings),
                           !.generalPredicates = Append(@, r.lists.general)],
                 c, pattern, i + 1)

fromRawParts(q, c, pattern) ==
    patternLoop([q EXCEPT !.captureNames = captureNames], c, pattern, 0)

\* bytes.Split(pattern, "\n")
RECURSIVE SplitLines(_, _, _, _)
SplitLines(pattern, i, curr, out) ==
    IF i > Len(pattern) THEN Append(out, curr)
    ELSE IF pattern[i] = "\n" THEN SplitLines(pattern, i + 1, <<>>, Append(out, curr))
    ELSE SplitLines(pattern, i + 1, Append(curr, pattern[i]), out)

\* for _, line := range bytes.Split(pattern, []byte("\n"))
RECURSIVE lineLoop(_, _, _, _, _)
lineLoop(lines, k, lineStart, row, offset) ==
    IF k > Len(lines)
    THEN [lineStart |-> lineStart, row |-> row, lineContainingError |-> <<>>]
    ELSE LET lineEnd == lineStart + Len(lines[k]) + 1
         IN  IF lineEnd > offset
             THEN [lineStart |-> lineStart, row |-> row,
                   lineContainingError |-> lines[k]]
             ELSE lineLoop(lines, k + 1, lineEnd, row + 1, offset)

\* the runes of the model's texts that may be part of a name
NameRunes == {"a", "b", "_", "-"}

\* for i, c := range suffix: the name the suffix begins with
RECURSIVE nameLoop(_, _)
nameLoop(suffix, i) ==
    IF i > Len(suffix) \/ suffix[i] \notin NameRunes THEN SubSeq(suffix, 1, i - 1)
    ELSE nameLoop(suffix, i + 1)

voidPoint == [Row |-> maxUint32, Column |-> maxUint32]

newQueryError(pattern, kind, errOfs) ==
    IF kind = QueryErrorLanguage
    THEN QueryError(<<"LanguageError">>, <<>>, 0, QueryErrorLanguage,
                    voidPoint.Row, voidPoint.Column)
    ELSE
    LET offset == errOfs
        l == lineLoop(SplitLines(pattern, 1, <<>>, <<>>), 1, 0, 0, offset)
        column == offset - l.lineStart
        names == kind \in {QueryErrorNodeType, QueryErrorField, QueryErrorCapture}
        message ==
            IF names THEN nameLoop(SubSeq(pattern, offset + 1, Len(pattern)), 1)
            ELSE IF l.lineContainingError # <<>>
                 THEN l.lineContainingError \o <<"\n">>
                          \o [i \in 1..(offset - l.lineStart) |-> " "] \o <<"^">>
                 ELSE <<"Unexpected EOF">>
        syntax == QueryErrorSyntax
        kkind == IF names THEN kind
                 ELSE IF syntax = QueryErrorStructure THEN QueryErrorStructure
                 ELSE syntax
    IN  QueryError(<<>>, message, offset, kkind, l.row, column)

\* the native handle of a query: allocated by ts_query_new, with a cleanup
\* registered that deletes it, deleted
Handle(allocated, cleanup, deleted) ==
    [allocated |-> allocated, cleanup |-> cleanup, deleted |-> deleted]

\* the end of NewQuery: r is what fromRawParts returned; the cleanup that
\* deletes the handle is registered when it returned no error
NewQueryReturn(r) ==
    [q |-> r.q, err |-> r.err, handle |-> Handle(TRUE, r.err = NoError, FALSE)]

\* in is the pattern together with what ts_query_new gives for it: the
\* native query c, or nil with the error's offset and type
NewQuery(in) ==
    IF in.c.nil
    THEN [q |-> <<>>, err |-> newQueryError(in.pattern, in.errType, in.errOfs),
          handle |-> Handle(FALSE, FALSE, FALSE)]
    ELSE NewQueryReturn(fromRawParts(Query(<<>>, <<>>, <<>>, <<>>, <<>>),
                                     in.c, in.pattern))

----------------------------------------------------------------------------
(* satisfiesTextPredicate: the condition closure *)

\* EqCaptureLoop comparing the nodes instead of their text
RECURSIVE EqCaptureLoopByNode(_, _, _)
EqCaptureLoopByNode(p, nodes1, nodes2) ==
    IF Len(nodes1) > 0 /\ Len(nodes2) > 0
    THEN LET isPositiveMatch == nodes1[1] = nodes2[1]
         IN  IF isPositiveMatch # p.Positive /\ p.MatchAllNodes THEN FALSE
             ELSE IF isPositiveMatch = p.Positive /\ ~p.MatchAllNodes THEN TRUE
             ELSE EqCaptureLoopByNode(p, Tail(nodes1), Tail(nodes2))
    ELSE Len(nodes1) = 0 /\ Len(nodes2) = 0

\* EqCaptureLoop passing when one list runs out before the other
RECURSIVE EqCaptureLoopNoLeftover(_, _, _)
EqCaptureLoopNoLeftover(p, nodes1, nodes2) ==
    IF Len(nodes1) > 0 /\ Len(nodes2) > 0
    THEN LET isPositiveMatch == NodeText(nodes1[1]) = NodeText(nodes2[1])
         IN  IF isPositiveMatch # p.Positive /\ p.MatchAllNodes THEN FALSE
             ELSE IF isPositiveMatch = p.Positive /\ ~p.MatchAllNodes THEN TRUE
             ELSE EqCaptureLoopNoLeftover(p, Tail(nodes1), Tail(nodes2))
    ELSE TRUE

RECURSIVE EqCaptureLoop(_, _, _)
EqCaptureLoop(p, nodes1, nodes2) ==
    IF Len(nodes1) > 0 /\ Len(nodes2) > 0
    THEN LET isPositiveMatch == NodeText(nodes1[1]) = NodeText(nodes2[1])
         IN  IF isPositiveMatch # p.Positive /\ p.MatchAllNodes THEN FALSE
             ELSE IF isPositiveMatch = p.Positive /\ ~p.MatchAllNodes THEN TRUE
             ELSE EqCaptureLoop(p, Tail(nodes1), Tail(nodes2))
    ELSE Len(nodes1) = 0 /\ Len(nodes2) = 0

RECURSIVE EqStringLoop(_, _)
EqStringLoop(p, nodes) ==
    IF nodes = <<>> THEN TRUE
    ELSE LET isPositiveMatch == NodeText(Head(nodes)) = p.Value.str
         IN  IF isPositiveMatch # p.Positive /\ p.MatchAllNodes THEN FALSE
             ELSE IF isPositiveMatch = p.Positive /\ ~p.MatchAllNodes THEN TRUE
             ELSE EqStringLoop(p, Tail(nodes))

\* MatchStringLoop comparing with TRUE instead of predicate.Positive
RECURSIVE MatchStringLoopNoPolarity(_, _)
MatchStringLoopNoPolarity(p, nodes) ==
    IF nodes = <<>> THEN TRUE
    ELSE LET isPositiveMatch == RegexMatch(p.Value.regex, NodeText(Head(nodes)))
         IN  IF ~isPositiveMatch /\ p.MatchAllNodes THEN FALSE
             ELSE IF isPositiveMatch /\ ~p.MatchAllNodes THEN TRUE
             ELSE MatchStringLoopNoPolarity(p, Tail(nodes))

RECURSIVE MatchStringLoop(_, _)
MatchStringLoop(p, nodes) ==
    IF nodes = <<>> THEN TRUE
    ELSE LET isPositiveMatch == RegexMatch(p.Value.regex, NodeText(Head(nodes)))
         IN  IF isPositiveMatch # p.Positive /\ p.MatchAllNodes THEN FALSE
             ELSE IF isPositiveMatch = p.Positive /\ ~p.MatchAllNodes THEN TRUE
             ELSE MatchStringLoop(p, Tail(nodes))

RECURSIVE AnyStringLoop(_, _)
AnyStringLoop(p, nodes) ==
    IF nodes = <<>> THEN TRUE
    ELSE LET nodeText == NodeText(Head(nodes))
             isPositiveMatch ==
                 \E k \in 1..Len(p.Value.strs) : nodeText = p.Value.strs[k]
         IN  IF isPositiveMatch # p.Positive THEN FALSE
             ELSE AnyStringLoop(p, Tail(nodes))

condition(p, m) ==
    CASE p.Type = TextPredicateTypeEqCapture ->
            EqCaptureLoop(p, NodesForCaptureIndex(m.Captures, p.CaptureID),
                          NodesForCaptureIndex(m.Captures, p.Value.capture))
      [] p.Type = TextPredicateTypeEqString ->
            EqStringLoop(p, NodesForCaptureIndex(m.Captures, p.CaptureID))
      [] p.Type = TextPredicateTypeMatchString ->
            MatchStringLoop(p, NodesForCaptureIndex(m.Captures, p.CaptureID))
      [] p.Type = TextPredicateTypeAnyString ->
            AnyStringLoop(p, NodesForCaptureIndex(m.Captures, p.CaptureID))
      [] OTHER -> FALSE

\* satisfiesLoop leaving only the inner closure on a failing predicate
RECURSIVE satisfiesLoopNoReturn(_, _, _, _)
satisfiesLoopNoReturn(preds, m, i, seen) ==
    IF i > Len(preds) THEN [ok |-> TRUE, evaluated |-> seen]
    ELSE satisfiesLoopNoReturn(preds, m, i + 1, Append(seen, i))

\* for _, predicate := range q.TextPredicates[qm.PatternIndex]
RECURSIVE satisfiesLoop(_, _, _, _)
satisfiesLoop(preds, m, i, seen) ==
    IF i > Len(preds) THEN [ok |-> TRUE, evaluated |-> seen]
    ELSE IF ~condition(preds[i], m)
         THEN [ok |-> FALSE, evaluated |-> Append(seen, i)]
         ELSE satisfiesLoop(preds, m, i + 1, Append(seen, i))

\* satisfiesTextPredicate that also wants every is? / is-not? of the pattern
\* to be positive
satisfiesTextPredicateAndProperties(q, m) ==
    LET r == satisfiesLoop(q.TextPredicates[m.PatternIndex + 1], m, 1, <<>>)
        props == q.propertyPredicates[m.PatternIndex + 1]
    IN  [r EXCEPT !.ok = r.ok /\ \A i \in 1..Len(props) : props[i].Positive]

satisfiesTextPredicate(q, m) ==
    satisfiesLoop(q.TextPredicates[m.PatternIndex + 1], m, 1, <<>>)

----------------------------------------------------------------------------
(* The native cursor behind QueryCursor.c *)

QueryState(m) == [m |-> m, consumed |-> 0]

\* pending matches in the order found, pulls left before the timeout, halted
CursorState(cands, budget) ==
    [pending |-> [i \in 1..Len(cands) |-> QueryState(cands[i])],
     budget |-> budget, halted |-> FALSE]

Pull(c, m, index) == [cursor |-> c, result |-> m, index |-> index]

Halt(c) == Pull([c EXCEPT !.halted = TRUE, !.pending = <<>>], Nil, 0)

\* hands over the first pending match and releases it
ts_query_cursor_next_match(c) ==
    IF c.halted \/ c.budget = 0 \/ c.pending = <<>> THEN Halt(c)
    ELSE Pull([c EXCEPT !.pending = Tail(@), !.budget = @ - 1],
              Head(c.pending).m, 0)

HasCapture(s) == s.consumed < Len(s.m.Captures)

NextStart(s) == s.m.Captures[s.consumed + 1].Node.start

\* hands over the earliest capture not yet consumed, with its match, which
\* stays pending until all of its captures are consumed
ts_query_cursor_next_capture(c) ==
    LET live == SelectSeq(c.pending, HasCapture)
    IN  IF c.halted \/ c.budget = 0 \/ live = <<>> THEN Halt(c)
        ELSE LET k == CHOOSE i \in 1..Len(live) :
                          \A j \in 1..Len(live) :
                              \/ NextStart(live[i]) < NextStart(live[j])
                              \/ NextStart(live[i]) = NextStart(live[j]) /\ i <= j
             IN  Pull([c EXCEPT !.pending = [live EXCEPT ![k].consumed = @ + 1],
                                !.budget = @ - 1],
                      live[k].m, live[k].consumed)

ts_query_cursor_remove_match(c, matchID) ==
    LET keep(s) == s.m.ID # matchID
    IN  [c EXCEPT !.pending = SelectSeq(@, keep)]

----------------------------------------------------------------------------
(* QueryCursor *)

NextMatch(c) == ts_query_cursor_next_match(c)

NextCapture(c) == ts_query_cursor_next_capture(c)

RemoveMatch(c, matchID) == ts_query_cursor_remove_match(c, matchID)

----------------------------------------------------------------------------
(* QueryMatches.Next and QueryCaptures.Next *)

Event(op, m, index) == [op |-> op, m |-> m, index |-> index]

Returned(c, tr, m, index) ==
    [cursor |-> c, trace |-> Append(tr, Event("return", m, index))]

\* QueryMatches.Next returning every candidate
QueryMatchesNextUnfiltered(q, c, tr) ==
    LET r == NextMatch(c)
    IN  Returned(r.cursor, Append(tr, Event("NextMatch", r.result, 0)),
                 r.result, 0)

\* QueryMatches.Next removing a failing candidate as QueryCaptures.Next does
RECURSIVE QueryMatchesNextRemoving(_, _, _)
QueryMatchesNextRemoving(q, c, tr) ==
    LET r == NextMatch(c)
        tr1 == Append(tr, Event("NextMatch", r.result, 0))
    IN  IF r.result # Nil
        THEN IF satisfiesTextPredicate(q, r.result).ok
             THEN Returned(r.cursor, tr1, r.result, 0)
             ELSE QueryMatchesNextRemoving(q, RemoveMatch(r.cursor, r.result.ID),
                      Append(tr1, Event("RemoveMatch", r.result, 0)))
        ELSE Returned(r.cursor, tr1, Nil, 0)

\* QueryMatches.Next returning nil on a failing candidate
QueryMatchesNextNilOnFail(q, c, tr) ==
    LET r == NextMatch(c)
        tr1 == Append(tr, Event("NextMatch", r.result, 0))
    IN  IF r.result # Nil /\ satisfiesTextPredicate(q, r.result).ok
        THEN Returned(r.cursor, tr1, r.result, 0)
        ELSE Returned(r.cursor, tr1, Nil, 0)

RECURSIVE QueryMatchesNext(_, _, _)
QueryMatchesNext(q, c, tr) ==
    LET r == NextMatch(c)
        tr1 == Append(tr, Event("NextMatch", r.result, 0))
    IN  IF r.result # Nil
        THEN IF satisfiesTextPredicate(q, r.result).ok
             THEN Returned(r.cursor, tr1, r.result, 0)
             ELSE QueryMatchesNext(q, r.cursor, tr1)
        ELSE Returned(r.cursor, tr1, Nil, 0)

\* QueryCaptures.Next without m.Remove()
RECURSIVE QueryCapturesNextNoRemove(_, _, _)
QueryCapturesNextNoRemove(q, c, tr) ==
    LET r == NextCapture(c)
        tr1 == Append(tr, Event("NextCapture", r.result, r.index))
    IN  IF r.result # Nil
        THEN IF satisfiesTextPredicate(q, r.result).ok
             THEN Returned(r.cursor, tr1, r.result, r.index)
             ELSE QueryCapturesNextNoRemove(q, r.cursor, tr1)
        ELSE Returned(r.cursor, tr1, Nil, r.index)

\* QueryCaptures.Next with m.Remove() ahead of the predicate test
RECURSIVE QueryCapturesNextRemoveFirst(_, _, _)
QueryCapturesNextRemoveFirst(q, c, tr) ==
    LET r == NextCapture(c)
        tr1 == Append(tr, Event("NextCapture", r.result, r.index))
    IN  IF r.result # Nil
        THEN LET c2 == RemoveMatch(r.cursor, r.result.ID)
                 tr2 == Append(tr1, Event("RemoveMatch", r.result, 0))
             IN  IF satisfiesTextPredicate(q, r.result).ok
                 THEN Returned(c2, tr2, r.result, r.index)
                 ELSE QueryCapturesNextRemoveFirst(q, c2, tr2)
        ELSE Returned(r.cursor, tr1, Nil, r.index)

RECURSIVE QueryCapturesNext(_, _, _)
QueryCapturesNext(q, c, tr) ==
    LET r == NextCapture(c)
        tr1 == Append(tr, Event("NextCapture", r.result, r.index))
    IN  IF r.result # Nil
        THEN IF satisfiesTextPredicate(q, r.result).ok
             THEN Returned(r.cursor, tr1, r.result, r.index)
             ELSE QueryCapturesNext(q, RemoveMatch(r.cursor, r.result.ID),
                                    Append(tr1, Event("RemoveMatch", r.result, 0)))
        ELSE Returned(r.cursor, tr1, Nil, r.index)

----------------------------------------------------------------------------
(* Inputs *)

\* predicates used in the per-pattern lists
ListPreds == {p \in EqStringPreds : p.CaptureID = 0 /\ p.MatchAllNodes}

StreamCaptureSet ==
    {QueryCapture(n, 0) : n \in {Node(0, 1), Node(1, 2), Node(2, 3)}}

\* the captures of a match come in the order of their nodes in the tree
InTreeOrder(cs) ==
    \A i, j \in 1..Len(cs) : i < j => cs[i].Node.start < cs[j].Node.start

StreamMatches(id) ==
    {QueryMatch(id, p, cs) :
        p \in PatternIndexes,
        cs \in {l \in SeqUpTo(StreamCaptureSet, MaxCaptures) : InTreeOrder(l)}}

\* match IDs are handed out in the order the matches are found
Candidates ==
    UNION {{cs \in [1..k -> UNION {StreamMatches(id) : id \in 0..(k - 1)}] :
               \A i \in 1..k : cs[i].ID = i - 1} : k \in 0..MaxCands}

NoNames == <<>>

NoLists == <<<<>>, <<>>>>

\* a query whose patterns carry text predicates only
TextQuery(text) == Query(NoNames, text, NoLists, NoLists, NoLists)

\* the same with (#is-not? "k"), (#set! "k" "a") and (#custom? @0) on pattern 0
DecoratedQuery(text) ==
    Query(NoNames, text,
          <<<<PropertyPredicate(QueryProperty(<<"k">>, <<>>, <<>>), FALSE)>>, <<>>>>,
          <<<<QueryProperty(<<"k">>, <<<<"a">>>>, <<>>)>>, <<>>>>,
          <<<<QueryPredicate(<<"custom?">>,
                             <<QueryPredicateArg(<<0>>, <<>>)>>)>>, <<>>>>)

StreamQueries ==
    {TextQuery(<<l, <<>>>>) : l \in SeqUpTo({p \in ListPreds : p.Positive}, 1)}
        \cup {DecoratedQuery(<<<<p>>, <<>>>>) :
                 p \in {x \in ListPreds : x.Positive /\ x.Value.str = <<"a">>}}

SatQueries ==
    {TextQuery(<<l0, l1>>) : l0 \in SeqUpTo(ListPreds, MaxPreds),
                             l1 \in SeqUpTo(ListPreds, MaxPreds)}

\* (#eq? @0 @1) and (#not-eq? @0 @1) on pattern 0
EqQueries ==
    {TextQuery(<<<<p>>, <<>>>>) :
        p \in {x \in EqCapturePreds :
                  x.MatchAllNodes /\ x.CaptureID = 0 /\ x.Value.capture = 1}}

\* matches of pattern 0 with one node on each of the two captures
EqMatches(id) ==
    {QueryMatch(id, 0, <<QueryCapture(n1, 0), QueryCapture(n2, 1)>>) :
        n1 \in Nodes, n2 \in Nodes}

EqCandidates ==
    UNION {{cs \in [1..k -> UNION {EqMatches(id) : id \in 0..(k - 1)}] :
               \A i \in 1..k : cs[i].ID = i - 1} : k \in 1..MaxCands}

\* the native query and the pattern text handed to NewQuery
Input(patterns, pattern) ==
    [c |-> [nil |-> FALSE, patterns |-> patterns],
     errOfs |-> 0, errType |-> QueryErrorNone, pattern |-> pattern]

\* a pattern text ts_query_new rejects
Rejected(errType, errOfs, pattern) ==
    [c |-> [nil |-> TRUE, patterns |-> <<>>],
     errOfs |-> errOfs, errType |-> errType, pattern |-> pattern]

RECURSIVE Flat(_)

\* a pattern: its predicates as written, the steps the native query holds for
\* them, and the byte where the pattern starts
Pattern(preds, startByte) ==
    [predicates |-> preds, steps |-> Flat(preds), startByte |-> startByte]

Capture(id) == QueryPredicateStep(QueryPredicateStepTypeCapture, id)

String(str) == QueryPredicateStep(QueryPredicateStepTypeString, StringID(str))

\* the steps ts_query_predicates_for_pattern gives for a list of predicates
Flat(preds) ==
    IF preds = <<>> THEN <<>> ELSE Head(preds) \o <<Done>> \o Flat(Tail(preds))

Operators ==
    {<<"eq?">>, <<"not-eq?">>, <<"any-eq?">>, <<"any-not-eq?">>,
     <<"match?">>, <<"not-match?">>, <<"any-match?">>, <<"any-not-match?">>,
     <<"any-of?">>, <<"not-any-of?">>, <<"set!">>, <<"is?">>, <<"is-not?">>,
     <<"custom?">>}

ArgSteps ==
    {Capture(0), Capture(1), String(<<"a">>), String(<<"b">>),
     String(<<"^", "a", "$">>), String(<<"[">>)}

\* one predicate of every shape: an operator name and up to MaxArgs arguments
PredInputs ==
    {Input(<<Pattern(<<<<String(op)>> \o args>>, 0)>>, <<"(">>) :
        op \in Operators, args \in SeqUpTo(ArgSteps, MaxArgs)}

\* predicates that compile, predicates that do not, and an empty one
PredicatePool ==
    {<<String(<<"eq?">>), Capture(0), String(<<"a">>)>>,
     <<String(<<"not-eq?">>), Capture(1), String(<<"b">>)>>,
     <<String(<<"set!">>), String(<<"a">>)>>,
     <<String(<<"is?">>), String(<<"a">>)>>,
     <<String(<<"custom?">>), Capture(0)>>,
     <<String(<<"eq?">>), Capture(0)>>,
     <<String(<<"match?">>), Capture(0), String(<<"[">>)>>,
     <<Capture(1), String(<<"a">>)>>,
     <<>>}

CompileText == <<"(", "\n", "(", "\n">>

\* two patterns on rows 0 and 1, with up to one predicate and up to
\* MaxPreds predicates
CompileInputs ==
    {Input(<<Pattern(p0, 0), Pattern(p1, 2)>>, CompileText) :
        p0 \in SeqUpTo(PredicatePool, 1),
        p1 \in SeqUpTo(PredicatePool, MaxPreds)}

Texts == SeqUpTo({"(", "\n"}, MaxText)

\* every error type at every offset of a text of names and newlines
RejectedInputs ==
    UNION {{Rejected(errType, errOfs, text) :
               errType \in QueryErrorSyntax..QueryErrorLanguage,
               errOfs \in 0..Len(text)} : text \in SeqUpTo({"a", "\n"}, MaxText)}

\* predicates that do not compile: beginning with a capture, eq? with one
\* argument, match? with a malformed regular expression
FailingPredicates ==
    {<<Capture(id)>> \o args : id \in CaptureIDs, args \in SeqUpTo({String(<<"a">>)}, 1)}
        \cup {<<String(<<"eq?">>), Capture(0)>>,
              <<String(<<"match?">>), Capture(0), String(<<"[">>)>>}

\* one pattern starting at a parenthesis of a text, its last predicate failing
RowInputs ==
    UNION {{Input(<<Pattern(before \o <<last>>, startByte)>>, text) :
               before \in SeqUpTo({<<String(<<"set!">>), String(<<"a">>)>>}, 1),
               last \in FailingPredicates,
               startByte \in {i \in 0..(Len(text) - 1) : text[i + 1] = "("}} :
           text \in Texts}

NoInput == <<>>

NoStreams == <<>>

NoIterator == <<>>

NoParser == <<>>

NoResult == <<>>

CondMatches ==
    {QueryMatch(0, 0, cs) : cs \in SeqUpTo(QueryCaptureSet, MaxCaptures)}

\* matches with two nodes on one capture and one node on the other
PairMatches ==
    {QueryMatch(0, 0, <<QueryCapture(n1, 0), QueryCapture(n2, i), QueryCapture(n3, 1)>>) :
        n1 \in Nodes, n2 \in Nodes, n3 \in Nodes, i \in CaptureIDs}

NoPredicate ==
    TextPredicateCapture(TextPredicateTypeEqString, 0, NoValue, FALSE, FALSE)

NoQuery == TextQuery(NoLists)

NoCursor == CursorState(<<>>, 0)

----------------------------------------------------------------------------
(* Streams: a cursor with NewQueryCursor done and a compiled Query *)

\* qc.exec(q, n): the cursor starts over on the matches of q under n
exec(cands, budget) == CursorState(cands, budget)

Init ==
    /\ pc = "stream"
    /\ query \in StreamQueries
    /\ cursor = NoCursor
    /\ stream = "none"
    /\ trace = <<>>
    /\ predicate = NoPredicate
    /\ qm = Nil
    /\ ok = FALSE
    /\ evaluated = <<>>
    /\ input = NoInput
    /\ result = NoResult
    /\ streams = NoStreams
    /\ iter = NoIterator
    /\ parser = NoParser

\* the matches the node holds for the query
Found == IF pc = "eq" THEN EqCandidates ELSE Candidates

\* qc.Matches(q, n, text)
Matches ==
    /\ pc \in {"stream", "eq"} /\ stream = "none"
    /\ \E cands \in Found, budget \in 0..MaxBudget :
           cursor' = exec(cands, budget)
    /\ stream' = "matches"
    /\ UNCHANGED <<streams, iter, parser, input, result, pc, query, predicate, qm, ok, evaluated, trace>>

\* qc.Captures(q, n, text)
Captures ==
    /\ pc = "stream" /\ stream = "none"
    /\ \E cands \in Candidates, budget \in 0..MaxBudget :
           cursor' = exec(cands, budget)
    /\ stream' = "captures"
    /\ UNCHANGED <<streams, iter, parser, input, result, pc, query, predicate, qm, ok, evaluated, trace>>

Returns(tr) == SelectSeq(tr, LAMBDA e : e.op = "return")

MatchesNext ==
    /\ pc \in {"stream", "eq"} /\ stream = "matches"
    /\ Len(Returns(trace)) < MaxNext
    /\ LET r == QueryMatchesNext(query, cursor, trace)
       IN  cursor' = r.cursor /\ trace' = r.trace
    /\ UNCHANGED <<streams, iter, parser, input, result, pc, query, predicate, qm, ok, evaluated, stream>>

CapturesNext ==
    /\ pc = "stream" /\ stream = "captures"
    /\ Len(Returns(trace)) < MaxNext
    /\ LET r == QueryCapturesNext(query, cursor, trace)
       IN  cursor' = r.cursor /\ trace' = r.trace
    /\ UNCHANGED <<streams, iter, parser, input, result, pc, query, predicate, qm, ok, evaluated, stream>>

Next == Matches \/ Captures \/ MatchesNext \/ CapturesNext

Spec == Init /\ [][Next]_vars

----------------------------------------------------------------------------
(* A matches stream over a query with one eq? / not-eq? between two captures *)

InitEq ==
    /\ pc = "eq"
    /\ query \in EqQueries
    /\ cursor = NoCursor
    /\ stream = "none"
    /\ trace = <<>>
    /\ predicate = NoPredicate
    /\ qm = Nil
    /\ ok = FALSE
    /\ evaluated = <<>>
    /\ input = NoInput
    /\ result = NoResult
    /\ streams = NoStreams
    /\ iter = NoIterator
    /\ parser = NoParser

NextEq == Matches \/ MatchesNext

SpecEq == InitEq /\ [][NextEq]_vars

----------------------------------------------------------------------------
(* NewQuery on one predicate, on two patterns, and on a pattern in a text *)

InitNewQuery(start, inputs) ==
    /\ pc = start
    /\ input \in inputs
    /\ result = NoResult
    /\ streams = NoStreams
    /\ iter = NoIterator
    /\ parser = NoParser
    /\ query = NoQuery
    /\ cursor = NoCursor
    /\ stream = "none"
    /\ trace = <<>>
    /\ predicate = NoPredicate
    /\ qm = Nil
    /\ ok = FALSE
    /\ evaluated = <<>>

InitPred == InitNewQuery("pred", PredInputs)

InitCompile == InitNewQuery("compile", CompileInputs)

InitRow == InitNewQuery("row", RowInputs)

InitRejected == InitNewQuery("rejected", RejectedInputs)

\* q, err := NewQuery(lang, pattern)
Compile ==
    /\ pc \in {"pred", "compile", "row", "rejected"}
    /\ result' = NewQuery(input)
    /\ pc' = "compiled"
    /\ UNCHANGED <<streams, iter, parser, input, query, predicate, qm, ok, evaluated, cursor, stream, trace>>

NextNewQuery == Compile

SpecPred == InitPred /\ [][NextNewQuery]_vars

SpecCompile == InitCompile /\ [][NextNewQuery]_vars

SpecRow == InitRow /\ [][NextNewQuery]_vars

SpecRejected == InitRejected /\ [][NextNewQuery]_vars

----------------------------------------------------------------------------
(* condition applied to one predicate and one match *)

InitCond ==
    /\ pc = "cond"
    /\ predicate \in TextPredicates
    /\ qm \in CondMatches \cup PairMatches
    /\ query = NoQuery
    /\ cursor = NoCursor
    /\ stream = "none"
    /\ trace = <<>>
    /\ ok = FALSE
    /\ evaluated = <<>>
    /\ input = NoInput
    /\ result = NoResult
    /\ streams = NoStreams
    /\ iter = NoIterator
    /\ parser = NoParser

Condition ==
    /\ pc = "cond"
    /\ ok' = condition(predicate, qm)
    /\ pc' = "condDone"
    /\ UNCHANGED <<streams, iter, parser, input, result, query, predicate, qm, evaluated, cursor, stream, trace>>

NextCond == Condition

SpecCond == InitCond /\ [][NextCond]_vars

----------------------------------------------------------------------------
(* satisfiesTextPredicate applied to one query and one match *)

InitSat ==
    /\ pc = "sat"
    /\ query \in SatQueries
    /\ qm \in StreamMatches(0)
    /\ predicate = NoPredicate
    /\ cursor = NoCursor
    /\ stream = "none"
    /\ trace = <<>>
    /\ ok = FALSE
    /\ evaluated = <<>>
    /\ input = NoInput
    /\ result = NoResult
    /\ streams = NoStreams
    /\ iter = NoIterator
    /\ parser = NoParser

Satisfies ==
    /\ pc = "sat"
    /\ LET r == satisfiesTextPredicate(query, qm)
       IN  ok' = r.ok /\ evaluated' = r.evaluated
    /\ pc' = "satDone"
    /\ UNCHANGED <<streams, iter, parser, input, result, query, predicate, qm, cursor, stream, trace>>

NextSat == Satisfies

SpecSat == InitSat /\ [][NextSat]_vars

----------------------------------------------------------------------------
(* Reading the trace *)

IsPull(e) == e.op \in {"NextMatch", "NextCapture"}

IsReturn(e) == e.op = "return"

IsRemove(e) == e.op = "RemoveMatch"

Passes(m) == satisfiesTextPredicate(query, m).ok

\* the trace up to and including the first nil returned by Next
NilReturnAt == {i \in 1..Len(trace) : IsReturn(trace[i]) /\ trace[i].m = Nil}

UpToFirstNil ==
    IF NilReturnAt = {} THEN trace
    ELSE SubSeq(trace, 1, CHOOSE i \in NilReturnAt : \A j \in NilReturnAt : i <= j)

Results(tr) == [i \in 1..Len(tr) |-> <<tr[i].m, tr[i].index>>]

Yielded(tr) ==
    Results(SelectSeq(tr, LAMBDA e : IsReturn(e) /\ e.m # Nil))

DeliveredPassing(tr) ==
    Results(SelectSeq(tr, LAMBDA e : IsPull(e) /\ e.m # Nil /\ Passes(e.m)))

FailedPullAt ==
    {i \in 1..Len(trace) :
        IsPull(trace[i]) /\ trace[i].m # Nil /\ ~Passes(trace[i].m)}

RemoveAt == {i \in 1..Len(trace) : IsRemove(trace[i])}

----------------------------------------------------------------------------
(* Claims *)

\* C1: the results Next returns up to the first nil are exactly the
\* candidates the cursor delivered that satisfy their text predicates, in
\* delivery order: none that fails is returned and none that passes is skipped.
C1_FilterExact == Yielded(UpToFirstNil) = DeliveredPassing(UpToFirstNil)

\* a stream that dropped a failing candidate, then returned a passing one,
\* and has returned nil
C1_Witness ==
    /\ NilReturnAt # {}
    /\ \E i \in FailedPullAt : \E j \in (i + 1)..Len(trace) :
           IsReturn(trace[j]) /\ trace[j].m # Nil

C3_WholeMatchRemoved ==
    stream = "captures" =>
        \A i \in FailedPullAt :
            /\ i < Len(trace)
            /\ IsRemove(trace[i + 1]) /\ trace[i + 1].m.ID = trace[i].m.ID
            /\ \A j \in (i + 1)..Len(trace) :
                   IsReturn(trace[j]) => trace[j].m.ID # trace[i].m.ID

\* a failing match with more than one capture was removed and the stream
\* went on to return a capture of another match
C3_Witness ==
    /\ stream = "captures"
    /\ \E i \in FailedPullAt :
           /\ Len(trace[i].m.Captures) > 1
           /\ \E j \in (i + 1)..Len(trace) :
                  IsReturn(trace[j]) /\ trace[j].m # Nil

FailedIDs == {trace[i].m.ID : i \in FailedPullAt}

RemovedIDs == {trace[i].m.ID : i \in RemoveAt}

YieldedIDs ==
    {trace[i].m.ID : i \in {j \in 1..Len(trace) :
                               IsReturn(trace[j]) /\ trace[j].m # Nil}}

OneRemovalPerDiscard ==
    /\ Cardinality(RemoveAt) = Cardinality(FailedIDs)
    /\ \A i, j \in RemoveAt : trace[i].m.ID = trace[j].m.ID => i = j
    /\ RemovedIDs \cap YieldedIDs = {}

----------------------------------------------------------------------------

OwnPreds == query.TextPredicates[qm.PatternIndex + 1]

FailingAt == {i \in 1..Len(OwnPreds) : ~condition(OwnPreds[i], qm)}

FirstFailing == CHOOSE i \in FailingAt : \A j \in FailingAt : i <= j

\* C6: satisfiesTextPredicate is true iff every predicate in the list of the
\* match's own pattern is satisfied; the predicates are evaluated in list
\* order up to and including the first failing one, and no further.
C6_AllOfOwnPattern ==
    pc = "satDone" =>
        /\ ok = (FailingAt = {})
        /\ evaluated = [i \in 1..(IF FailingAt = {} THEN Len(OwnPreds)
                                  ELSE FirstFailing) |-> i]

\* a match with two predicates, the first satisfied and the second not, whose
\* pattern differs from one with other predicates
C6_Witness ==
    /\ pc = "satDone"
    /\ Len(OwnPreds) = 2 /\ FailingAt = {2} /\ ~ok
    /\ query.TextPredicates[1] # query.TextPredicates[2]

----------------------------------------------------------------------------

BoundNodes == NodesForCaptureIndex(qm.Captures, predicate.CaptureID)

OtherNodes == NodesForCaptureIndex(qm.Captures, predicate.Value.capture)

\* the comparison of one node with the predicate's literal or regex
Compares(node) ==
    IF predicate.Type = TextPredicateTypeEqString
    THEN NodeText(node) = predicate.Value.str
    ELSE RegexMatch(predicate.Value.regex, NodeText(node))

Agrees(node) == Compares(node) = predicate.Positive

PairAgrees(k) ==
    (NodeText(BoundNodes[k]) = NodeText(OtherNodes[k])) = predicate.Positive

Pairs == 1..(IF Len(BoundNodes) < Len(OtherNodes)
             THEN Len(BoundNodes) ELSE Len(OtherNodes))

LiteralTypes == {TextPredicateTypeEqString, TextPredicateTypeMatchString}

EqTypes == {TextPredicateTypeEqCapture, TextPredicateTypeEqString}

\* C7: eq?, not-eq?, match?, not-match? against a literal on a capture bound
\* to one or more nodes pass iff every bound node agrees with the polarity.
C7_AllNodesAgree ==
    (/\ pc = "condDone"
     /\ predicate.Type \in LiteralTypes
     /\ predicate.MatchAllNodes
     /\ BoundNodes # <<>>)
    => ok = (\A k \in 1..Len(BoundNodes) : Agrees(BoundNodes[k]))

\* not-match? on two bound nodes of which only the second matches the regex
C7_Witness ==
    /\ pc = "condDone"
    /\ predicate.Type = TextPredicateTypeMatchString
    /\ predicate.MatchAllNodes /\ ~predicate.Positive
    /\ Len(BoundNodes) = 2
    /\ Agrees(BoundNodes[1]) /\ ~Agrees(BoundNodes[2])
    /\ ~ok

\* C8: the any- operators on a capture bound to one or more nodes pass iff at
\* least one bound node (or node pair) agrees with the polarity.
C8_SomeNodeAgrees ==
    (/\ pc = "condDone"
     /\ predicate.Type \in LiteralTypes \cup {TextPredicateTypeEqCapture}
     /\ ~predicate.MatchAllNodes
     /\ BoundNodes # <<>>)
    => ok = IF predicate.Type = TextPredicateTypeEqCapture
            THEN \E k \in Pairs : PairAgrees(k)
            ELSE \E k \in 1..Len(BoundNodes) : Agrees(BoundNodes[k])

\* C9: on a primary capture bound to zero nodes any-eq? is false and eq? is
\* true.
C9_ZeroBindings ==
    (/\ pc = "condDone"
     /\ predicate.Type \in EqTypes
     /\ predicate.Positive
     /\ BoundNodes = <<>>)
    => ok = predicate.MatchAllNodes

\* C10: eq? / not-eq? on a capture bound to exactly one node give the same
\* result under MatchAllNodes = true and under MatchAllNodes = false.
C10_SingleBinding ==
    (/\ pc = "condDone"
     /\ predicate.Type \in EqTypes
     /\ Len(BoundNodes) = 1
     /\ predicate.Type = TextPredicateTypeEqCapture => Len(OtherNodes) = 1)
    => ok = condition([predicate EXCEPT !.MatchAllNodes = ~@], qm)

----------------------------------------------------------------------------

\* C11: with one node on each capture, eq? @a @b passes iff the two nodes'
\* texts are equal and not-eq? iff they differ; a passing match is returned
\* as pulled, with all of its captures, and a failing one is never returned.
C11_EqCaptures ==
    pc = "eq" =>
        \A i \in 1..Len(trace) :
            IsPull(trace[i]) /\ trace[i].m # Nil =>
                LET m == trace[i].m
                    same == NodeText(m.Captures[1].Node) = NodeText(m.Captures[2].Node)
                    pass == same = query.TextPredicates[1][1].Positive
                IN  /\ i < Len(trace)
                    /\ IF pass THEN trace[i + 1] = Event("return", m, 0)
                       ELSE /\ ~IsReturn(trace[i + 1])
                            /\ \A j \in 1..Len(trace) :
                                   IsReturn(trace[j]) => trace[j].m.ID # m.ID

\* eq? returned a match whose captures are two different nodes with equal
\* text, after dropping one whose texts differ
C11_Witness ==
    /\ pc = "eq"
    /\ query.TextPredicates[1][1].Positive
    /\ \E i \in 1..Len(trace), j \in 1..Len(trace) :
           /\ j < i
           /\ IsPull(trace[j]) /\ trace[j].m # Nil /\ ~IsReturn(trace[j + 1])
           /\ IsReturn(trace[i])
           /\ Len(trace[i].m.Captures) = 2
           /\ trace[i].m.Captures[1].Node # trace[i].m.Captures[2].Node

----------------------------------------------------------------------------

\* C17: whether a match passes depends on the query's TextPredicates only:
\* a query with the same TextPredicates and other PropertySettings,
\* PropertyPredicates and GeneralPredicates gives the same result, cursor
\* calls included, on the next call of either stream.
C17_OnlyTextPredicates ==
    pc = "stream" =>
        \A q \in StreamQueries :
            q.TextPredicates = query.TextPredicates =>
                /\ QueryMatchesNext(q, cursor, trace)
                       = QueryMatchesNext(query, cursor, trace)
                /\ QueryCapturesNext(q, cursor, trace)
                       = QueryCapturesNext(query, cursor, trace)

\* a query carrying set!, is-not? and a general predicate on pattern 0 has
\* dropped one match of that pattern and returned another
C17_Witness ==
    /\ pc = "stream"
    /\ query.propertyPredicates[1] # <<>>
    /\ query.propertySettings[1] # <<>>
    /\ query.generalPredicates[1] # <<>>
    /\ FailedPullAt # {}
    /\ \E i \in 1..Len(trace) :
           /\ IsReturn(trace[i]) /\ trace[i].m # Nil
           /\ trace[i].m.PatternIndex = 0

----------------------------------------------------------------------------
(* NewQuery on one predicate *)

\* the predicate handed to NewQuery
Steps == input.c.patterns[1].predicates[1]

Op == stringValues[Steps[1].ValueID + 1]

Args == Tail(Steps)

IsCapture(step) == step.Type = QueryPredicateStepTypeCapture

\* the argument as the pattern text has it
ArgText(step) ==
    IF IsCapture(step) THEN <<"@">> \o captureNames[step.ValueID + 1]
    ELSE stringValues[step.ValueID + 1]

Compiled == pc = "compiled" /\ result.err = NoError

Failed(class) ==
    pc = "compiled" /\ result.q = <<>> /\ Is(result.err.inner, class)

EqFamily == {<<"eq?">>, <<"not-eq?">>, <<"any-eq?">>, <<"any-not-eq?">>}

MatchFamily == {<<"match?">>, <<"not-match?">>, <<"any-match?">>, <<"any-not-match?">>}

AnyOfFamily == {<<"any-of?">>, <<"not-any-of?">>}

\* C12: any-of? / not-any-of? compile to a predicate whose literal set is the
\* arguments after the capture, in order; it passes on a match iff the text
\* of every node bound to the capture is (any-of?) or is not (not-any-of?)
\* one of these literals.
C12_AnyOf ==
    Compiled /\ Op \in AnyOfFamily =>
        LET p == result.q[1].TextPredicates[1][1]
            lits == [i \in 1..(Len(Args) - 1) |-> ArgText(Args[i + 1])]
        IN  /\ p.Type = TextPredicateTypeAnyString
            /\ p.CaptureID = Args[1].ValueID
            /\ p.Value.strs = lits
            /\ \A m \in CondMatches :
                   LET nodes == NodesForCaptureIndex(m.Captures, p.CaptureID)
                   IN  condition(p, m)
                         = \A k \in 1..Len(nodes) :
                               (\E i \in 1..Len(lits) : NodeText(nodes[k]) = lits[i])
                                   = (Op = <<"any-of?">>)

\* not-any-of? with two different literals has compiled
C12_Witness ==
    /\ Compiled /\ Op = <<"not-any-of?">>
    /\ Len(Args) = 3
    /\ ArgText(Args[2]) = <<"b">> /\ ArgText(Args[3]) = <<"a">>
    /\ result.q[1].TextPredicates[1][1].Value.strs = << <<"b">>, <<"a">> >>

\* C13: an eq? or match? family operator with n # 2 arguments fails with
\* ErrPredicateArgsWrongCount and the message "<op> (expected 2, got n)";
\* with 2 arguments it does not fail on the argument count.
C13_ExactlyTwo ==
    pc = "compiled" /\ Op \in EqFamily \cup MatchFamily =>
        IF Len(Args) # 2
        THEN /\ Failed(ErrPredicateArgsWrongCount)
             /\ result.err.Message
                  = Op \o <<" (expected ", "2", ", got ">> \o Itoa(Len(Args)) \o <<")">>
        ELSE ~Is(result.err.inner, ErrPredicateArgsWrongCount)

\* any-not-match? with three arguments has failed on the count
C13_Witness ==
    /\ Op = <<"any-not-match?">> /\ Len(Args) = 3
    /\ Failed(ErrPredicateArgsWrongCount)
    /\ result.err.Message = <<"any-not-match?", " (expected ", "2", ", got ", "3", ")">>

\* the first argument of the wrong kind, 0 if none: a non-capture first
\* argument, a capture as second argument of a match? family operator, a
\* capture after the first argument of any-of? / not-any-of?
WrongKindAt ==
    IF ~IsCapture(Args[1]) THEN 1
    ELSE IF Op \in MatchFamily
         THEN IF IsCapture(Args[2]) THEN 2 ELSE 0
    ELSE IF Op \in AnyOfFamily
         THEN IF \E i \in 2..Len(Args) : IsCapture(Args[i])
              THEN CHOOSE i \in 2..Len(Args) :
                       IsCapture(Args[i]) /\ \A j \in 2..(i - 1) : ~IsCapture(Args[j])
              ELSE 0
    ELSE 0

ArityOK ==
    IF Op \in AnyOfFamily THEN Len(Args) >= 2 ELSE Len(Args) = 2

\* C14: an eq? / match? / any-of? family predicate of the right arity with an
\* argument of the wrong kind fails with ErrPredicateWrongType and a message
\* naming the operator, the argument position and the offending value.
C14_WrongTypeNamesAll ==
    pc = "compiled" /\ Op \in EqFamily \cup MatchFamily \cup AnyOfFamily
        /\ ArityOK /\ WrongKindAt # 0 =>
        /\ Failed(ErrPredicateWrongType)
        /\ Contains(result.err.Message, Op)
        /\ Contains(result.err.Message, Itoa(WrongKindAt))
        /\ Contains(result.err.Message, ArgText(Args[WrongKindAt]))

\* the literals of the string table that are not regular expressions
Malformed == {<<"[">>}

\* C15: a match? family predicate whose literal is not a regular expression
\* fails with ErrPredicateRegex and no query; a compiled query's MatchString
\* predicates hold the compiled regex, on which the evaluation of a match
\* is defined.
C15_RegexAtCompileTime ==
    /\ pc = "compiled" /\ Op \in MatchFamily /\ Len(Args) = 2
           /\ IsCapture(Args[1]) /\ ~IsCapture(Args[2]) =>
           IF ArgText(Args[2]) \in Malformed
           THEN Failed(ErrPredicateRegex)
           ELSE /\ Compiled
                /\ Len(result.q[1].TextPredicates[1]) = 1
                /\ result.q[1].TextPredicates[1][1].Type = TextPredicateTypeMatchString
    /\ Compiled =>
           \A i \in 1..Len(result.q[1].TextPredicates[1]) :
               LET p == result.q[1].TextPredicates[1][i]
               IN  p.Type = TextPredicateTypeMatchString =>
                       /\ p.Value.regex \in Regexes
                       /\ \A m \in CondMatches : condition(p, m) \in BOOLEAN

\* not-match? with the literal "[" has failed
C15_Witness ==
    /\ Op = <<"not-match?">> /\ Len(Args) = 2
    /\ IsCapture(Args[1]) /\ ArgText(Args[2]) = <<"[">>
    /\ Failed(ErrPredicateRegex)

Registered ==
    EqFamily \cup MatchFamily \cup AnyOfFamily
        \cup {<<"set!">>, <<"is?">>, <<"is-not?">>, <<"default">>}

\* C16: a predicate with an operator outside the registry compiles, whatever
\* its arguments, into one QueryPredicate of its pattern's general
\* predicates: Operator is the name, Args the arguments in order, a capture
\* id for a capture and the string for a literal.
C16_Unregistered ==
    pc = "compiled" /\ Op \notin Registered =>
        /\ Compiled
        /\ result.q[1].generalPredicates[1]
             = <<QueryPredicate(Op,
                     [i \in 1..Len(Args) |->
                         IF IsCapture(Args[i])
                         THEN QueryPredicateArg(<<Args[i].ValueID>>, <<>>)
                         ELSE QueryPredicateArg(<<>>, <<ArgText(Args[i])>>)])>>
        /\ result.q[1].TextPredicates[1] = <<>>
        /\ result.q[1].propertyPredicates[1] = <<>>
        /\ result.q[1].propertySettings[1] = <<>>

\* custom? has compiled without arguments
C16_Witness ==
    /\ Compiled /\ Op = <<"custom?">> /\ Args = <<>>
    /\ result.q[1].generalPredicates[1] = <<QueryPredicate(<<"custom?">>, <<>>)>>

PropertyOps == {<<"set!">>, <<"is?">>, <<"is-not?">>}

Lits == SelectSeq(Args, LAMBDA a : ~IsCapture(a))

Caps == SelectSeq(Args, IsCapture)

\* the property the arguments describe
Property ==
    QueryProperty(ArgText(Lits[1]),
                  IF Len(Lits) = 2 THEN <<ArgText(Lits[2])>> ELSE <<>>,
                  IF Len(Caps) = 1 THEN <<Caps[1].ValueID>> ELSE <<>>)

\* C18: set!, is? and is-not? with 1 to 3 arguments, of which the first
\* literal is the key, the second literal the value and at most one a
\* capture, compile: set! into a QueryProperty of the property settings,
\* is? / is-not? into a PropertyPredicate of that property with Positive
\* true for is? only. Without arguments they fail with
\* ErrPredicateArgsWrongCount; with a second capture, a third literal or no
\* key they fail with ErrPredicateInvalidArg.
C18_Properties ==
    pc = "compiled" /\ Op \in PropertyOps /\ Len(Args) <= 3 =>
        IF Len(Args) = 0 THEN Failed(ErrPredicateArgsWrongCount)
        ELSE IF Len(Caps) >= 2 \/ Len(Lits) >= 3 \/ Len(Lits) = 0
        THEN Failed(ErrPredicateInvalidArg)
        ELSE /\ Compiled
             /\ result.q[1].TextPredicates[1] = <<>>
             /\ result.q[1].generalPredicates[1] = <<>>
             /\ IF Op = <<"set!">>
                THEN /\ result.q[1].propertySettings[1] = <<Property>>
                     /\ result.q[1].propertyPredicates[1] = <<>>
                ELSE /\ result.q[1].propertySettings[1] = <<>>
                     /\ result.q[1].propertyPredicates[1]
                          = <<PropertyPredicate(Property, Op = <<"is?">>)>>

\* is-not? has compiled with a key, a capture and a value
C18_Witness ==
    /\ Compiled /\ Op = <<"is-not?">>
    /\ Len(Args) = 3 /\ Len(Caps) = 1 /\ IsCapture(Args[2])
    /\ result.q[1].propertyPredicates[1]
         = <<PropertyPredicate(
                 QueryProperty(ArgText(Args[1]), <<ArgText(Args[3])>>,
                               <<Args[2].ValueID>>), FALSE)>>

----------------------------------------------------------------------------
(* NewQuery on two patterns *)

\* the error class a predicate of the pool fails with, <<>> if it compiles
FailsWith(pred) ==
    IF pred = <<>> THEN <<>>
    ELSE IF IsCapture(pred[1]) THEN ErrPredicateWrongStart
    ELSE IF stringValues[pred[1].ValueID + 1] = <<"eq?">> /\ Len(pred) # 3
         THEN ErrPredicateArgsWrongCount
    ELSE IF stringValues[pred[1].ValueID + 1] = <<"match?">>
              /\ ArgText(pred[3]) \in Malformed
         THEN ErrPredicateRegex
    ELSE <<>>

\* the failing predicates as <<pattern index, predicate index>>, both from 1
Failing ==
    {pq \in (1..Len(input.c.patterns)) \X (1..MaxPreds + 1) :
        /\ pq[2] <= Len(input.c.patterns[pq[1]].predicates)
        /\ FailsWith(input.c.patterns[pq[1]].predicates[pq[2]]) # <<>>}

Before(a, b) == a[1] < b[1] \/ (a[1] = b[1] /\ a[2] < b[2])

FirstFailingPredicate == CHOOSE a \in Failing : \A b \in Failing \ {a} : Before(a, b)

\* C19: if a predicate of a pattern fails, NewQuery returns a nil query and
\* the error of the first failing predicate, by pattern and then by
\* predicate within the pattern; otherwise it returns a query and no error.
C19_AllOrNothing ==
    pc = "compiled" =>
        IF Failing # {}
        THEN LET f == FirstFailingPredicate
             IN  /\ result.q = <<>>
                 /\ Is(result.err.inner,
                       FailsWith(input.c.patterns[f[1]].predicates[f[2]]))
                 /\ result.err.Row = f[1] - 1
        ELSE /\ result.err = NoError
             /\ Len(result.q) = 1
             /\ Len(result.q[1].TextPredicates) = Len(input.c.patterns)

\* the first pattern compiles and has predicates, the second one has two
\* failing predicates of different classes, and NewQuery has returned
C19_Witness ==
    /\ pc = "compiled"
    /\ result.q = <<>>
    /\ Len(input.c.patterns[1].predicates) >= 1
    /\ \A j \in 1..Len(input.c.patterns[1].predicates) :
           /\ input.c.patterns[1].predicates[j] # <<>>
           /\ FailsWith(input.c.patterns[1].predicates[j]) = <<>>
    /\ Len(input.c.patterns[2].predicates) >= 2
    /\ FailsWith(input.c.patterns[2].predicates[1]) = ErrPredicateRegex
    /\ FailsWith(input.c.patterns[2].predicates[2]) = ErrPredicateWrongStart
    /\ Is(result.err.inner, ErrPredicateRegex)

----------------------------------------------------------------------------
(* NewQuery on a pattern in a text *)

\* the predicate that fails
LastPredicate ==
    input.c.patterns[1].predicates[Len(input.c.patterns[1].predicates)]

\* the newline bytes before the pattern's start byte
NewlinesBefore ==
    Cardinality({i \in 1..input.c.patterns[1].startByte : input.pattern[i] = "\n"})

\* C20: a predicate beginning with a capture fails with
\* ErrPredicateWrongStart on the row that is the number of newline bytes of
\* the pattern text before the start byte of the predicate's pattern.
C20_WrongStartRow ==
    pc = "compiled" /\ IsCapture(LastPredicate[1]) =>
        /\ Failed(ErrPredicateWrongStart)
        /\ result.err.Row = NewlinesBefore

\* the pattern starts after one newline and is followed by another
C20_Witness ==
    /\ Failed(ErrPredicateWrongStart)
    /\ IsCapture(LastPredicate[1])
    /\ input.pattern = <<"\n", "(", "\n">>
    /\ input.c.patterns[1].startByte = 1
    /\ result.err.Row = 1

\* the byte after the last newline before the pattern's start byte
LineStart ==
    LET nl == {i \in 1..input.c.patterns[1].startByte : input.pattern[i] = "\n"}
    IN  IF nl = {} THEN 0 ELSE CHOOSE i \in nl : \A j \in nl : j <= i

\* C21: a predicate error of NewQuery carries the operator name of the
\* failing predicate (if it has one), the row and the column of the pattern
\* in the pattern text, and a message.
C21_CarriesNameAndPoint ==
    pc = "compiled" /\ result.err # NoError =>
        /\ result.err.Message # <<>>
        /\ ~IsCapture(LastPredicate[1]) =>
               Contains(result.err.Message, stringValues[LastPredicate[1].ValueID + 1])
        /\ result.err.Row = NewlinesBefore
        /\ result.err.Column = input.c.patterns[1].startByte - LineStart

----------------------------------------------------------------------------
(* split, and the four lists of a compiled query *)

IsDone(step) == step.Type = QueryPredicateStepTypeDone

\* the positions of the Done steps
DoneAt(steps) == {i \in 1..Len(steps) : IsDone(steps[i])}

\* the position of the k-th Done step, 0 for k = 0
KthDone(steps, k) ==
    IF k = 0 THEN 0
    ELSE CHOOSE i \in DoneAt(steps) :
             Cardinality({j \in DoneAt(steps) : j <= i}) = k

RECURSIVE ConcatAll(_)
ConcatAll(seqs) ==
    IF seqs = <<>> THEN <<>> ELSE Head(seqs) \o ConcatAll(Tail(seqs))

NonEmpty(preds) == SelectSeq(preds, LAMBDA x : x # <<>>)

\* the predicates of all four lists of pattern p of the compiled query
ListedFor(p) ==
    Len(result.q[1].TextPredicates[p]) + Len(result.q[1].propertyPredicates[p])
        + Len(result.q[1].propertySettings[p]) + Len(result.q[1].generalPredicates[p])

\* C27: split cuts the steps of a pattern at the Done steps: the k-th
\* output is the steps between the (k-1)-th and the k-th Done step, no
\* output holds a Done step, the outputs concatenated are the steps without
\* the Done steps; an empty run gives an empty predicate, which NewQuery
\* skips without error.
C27_SplitAtDone ==
    pc = "compiled" =>
        \A p \in 1..Len(input.c.patterns) :
            LET steps == input.c.patterns[p].steps
                out == split(steps)
            IN  /\ Len(out) = Cardinality(DoneAt(steps))
                /\ \A k \in 1..Len(out) :
                       /\ out[k] = SubSeq(steps, KthDone(steps, k - 1) + 1,
                                          KthDone(steps, k) - 1)
                       /\ \A i \in 1..Len(out[k]) : ~IsDone(out[k][i])
                /\ ConcatAll(out) = SelectSeq(steps, LAMBDA x : ~IsDone(x))
                /\ Failing = {} =>
                       /\ result.err = NoError
                       /\ ListedFor(p) = Len(NonEmpty(out))

\* a pattern with a predicate and an empty run after it has compiled
C27_Witness ==
    /\ pc = "compiled" /\ result.err = NoError
    /\ Len(input.c.patterns[2].predicates) = 2
    /\ input.c.patterns[2].predicates[1] # <<>>
    /\ input.c.patterns[2].predicates[2] = <<>>
    /\ split(input.c.patterns[2].steps)[2] = <<>>
    /\ ListedFor(2) = 1

\* what the handler registered for a predicate's operator makes of it
Handled(pred) ==
    LET op == stringValues[pred[1].ValueID + 1]
        fn == IF predicators(op) = "nil" THEN "assertPredDefault" ELSE predicators(op)
    IN  Call(fn, result.q[1], pred, op, 0).x

\* the compiled predicates of one type of pattern p, in source order
Expected(p, type) ==
    LET ps == SelectSeq(NonEmpty(input.c.patterns[p].predicates),
                        LAMBDA x : Handled(x).type = type)
    IN  [i \in 1..Len(ps) |-> Handled(ps[i]).v]

\* C30: a compiled query has one entry per pattern in each of its four
\* lists, and the entry of a pattern holds the pattern's non-empty
\* predicates of the list's type, each once, in source order.
C30_FourLists ==
    pc = "compiled" /\ result.err = NoError =>
        LET q == result.q[1]
            n == Len(input.c.patterns)
        IN  /\ Len(q.TextPredicates) = n
            /\ Len(q.propertyPredicates) = n
            /\ Len(q.propertySettings) = n
            /\ Len(q.generalPredicates) = n
            /\ \A p \in 1..n :
                   /\ q.TextPredicates[p] = Expected(p, "TextPredicateCapture")
                   /\ q.propertyPredicates[p] = Expected(p, "PropertyPredicate")
                   /\ q.propertySettings[p] = Expected(p, "QueryProperty")
                   /\ q.generalPredicates[p] = Expected(p, "QueryPredicate")
                   /\ ListedFor(p) = Len(NonEmpty(input.c.patterns[p].predicates))

\* a query with set! on its first pattern and not-eq? before eq? on its
\* second one has compiled
C30_Witness ==
    /\ pc = "compiled" /\ result.err = NoError
    /\ Len(result.q[1].propertySettings[1]) = 1
    /\ Len(result.q[1].TextPredicates[2]) = 2
    /\ ~result.q[1].TextPredicates[2][1].Positive
    /\ result.q[1].TextPredicates[2][2].Positive
    /\ result.q[1].propertySettings[2] = <<>>

----------------------------------------------------------------------------

\* C28: eq? / not-eq? between two captures compare the k-th node of the
\* first capture with the k-th node of the second: the predicate passes iff
\* the two captures have the same number of nodes and every pair agrees
\* with the polarity, so it fails when one capture has nodes left over.
C28_PairwiseSameCount ==
    (/\ pc = "condDone"
     /\ predicate.Type = TextPredicateTypeEqCapture
     /\ predicate.MatchAllNodes)
    => ok = (/\ Len(BoundNodes) = Len(OtherNodes)
             /\ \A k \in Pairs : PairAgrees(k))

\* eq? fails on two nodes against one although the first pair agrees
C28_Witness ==
    /\ pc = "condDone"
    /\ predicate.Type = TextPredicateTypeEqCapture
    /\ predicate.MatchAllNodes /\ predicate.Positive
    /\ Len(BoundNodes) = 2 /\ Len(OtherNodes) = 1
    /\ PairAgrees(1)
    /\ ~ok

----------------------------------------------------------------------------
(* NewQuery on a pattern the native compiler rejects *)

\* the newline bytes before the reported offset
NewlinesBeforeOffset ==
    {i \in 1..input.errOfs : input.pattern[i] = "\n"}

\* the byte after the last of them
OffsetLineStart ==
    IF NewlinesBeforeOffset = {} THEN 0
    ELSE CHOOSE i \in NewlinesBeforeOffset : \A j \in NewlinesBeforeOffset : j <= i

\* C22: when the native compiler rejects the pattern, NewQuery returns a
\* QueryError with the native error type for its Kind, the row that is the
\* number of newlines before the reported offset and the column that is the
\* offset less the start of that line.
C22_KindAndPoint ==
    pc = "compiled" /\ input.c.nil =>
        /\ result.q = <<>>
        /\ result.err.Kind = input.errType
        /\ result.err.Row = Cardinality(NewlinesBeforeOffset)
        /\ result.err.Column = input.errOfs - OffsetLineStart

----------------------------------------------------------------------------

\* C29: the native handle NewQuery got from ts_query_new is not left
\* without an owner: when NewQuery returns, a cleanup that deletes the
\* handle is registered or the handle is deleted.
C29_HandleReleased ==
    pc = "compiled" /\ result.handle.allocated =>
        result.handle.cleanup \/ result.handle.deleted

----------------------------------------------------------------------------
(* Two streams, each on a cursor of its own, over the one compiled Query.
   The calls of the two interleave between a cursor's native call and the
   test of the predicates, which reads the Query. *)

Held(m, index) == [m |-> m, index |-> index]

\* a QueryMatches or QueryCaptures: its cursor, the cursor as exec left it,
\* where its Next stands, the candidate Next holds and what Next returned
StreamState(kind, c) ==
    [kind |-> kind, cursor |-> c, start |-> c, pos |-> "idle",
     held |-> Held(Nil, 0), trace |-> <<>>]

NoStream == StreamState("none", NoCursor)

\* qm.cursor.NextMatch() / qc.cursor.NextCapture() on the cursor c
streamPull(s, c) ==
    LET r == IF s.kind = "matches" THEN NextMatch(c) ELSE NextCapture(c)
    IN  [s EXCEPT !.pos = "pulled", !.held = Held(r.result, r.index)]

\* the two streams pulling from the cursor of the first
StreamPullOneCursor(ss, i) ==
    LET c == ss[1].cursor
        r == IF ss[i].kind = "matches" THEN NextMatch(c) ELSE NextCapture(c)
        s1 == [ss EXCEPT ![i] = streamPull(ss[i], c)]
    IN  [s1 EXCEPT ![1].cursor = r.cursor]

StreamPull(ss, i) ==
    LET c == ss[i].cursor
        r == IF ss[i].kind = "matches" THEN NextMatch(c) ELSE NextCapture(c)
        s1 == [ss EXCEPT ![i] = streamPull(ss[i], c)]
    IN  [s1 EXCEPT ![i].cursor = r.cursor]

\* the rest of the loop body of Next: return, or go round again
StreamTest(q, s) ==
    IF s.held.m = Nil \/ satisfiesTextPredicate(q, s.held.m).ok
    THEN [s EXCEPT !.pos = "idle",
                   !.trace = Append(@, Event("return", s.held.m, s.held.index))]
    ELSE [s EXCEPT !.pos = "next",
                   !.cursor = IF s.kind = "captures"
                              THEN RemoveMatch(@, s.held.m.ID) ELSE @]

\* two nodes, with the texts "a" and "b"
SharedNodes == {Node(0, 1), Node(1, 2)}

\* MaxCands matches of pattern 0 with one node on capture 0
SharedCandidates ==
    {cs \in [1..MaxCands -> {QueryMatch(id, 0, <<QueryCapture(n, 0)>>) :
                                id \in 0..(MaxCands - 1), n \in SharedNodes}] :
        \A i \in 1..MaxCands : cs[i].ID = i - 1}

\* the queries of StreamQueries that filter candidates out
SharedQueries == {q \in StreamQueries : \E p \in ListPreds :
                     q.TextPredicates[1] = <<p>> /\ p.Value.str = <<"a">>}

InitShared ==
    /\ pc = "shared"
    /\ query \in SharedQueries
    /\ streams = <<NoStream, NoStream>>
    /\ cursor = NoCursor
    /\ stream = "none"
    /\ trace = <<>>
    /\ predicate = NoPredicate
    /\ qm = Nil
    /\ ok = FALSE
    /\ evaluated = <<>>
    /\ input = NoInput
    /\ result = NoResult
    /\ iter = NoIterator
    /\ parser = NoParser

\* qc.Matches(q, n, text) on the cursor of stream i
SharedMatches(i) ==
    /\ pc = "shared" /\ streams[i].kind = "none"
    /\ \E cands \in SharedCandidates, budget \in {1, MaxBudget} :
           streams' = [streams EXCEPT ![i] = StreamState("matches", exec(cands, budget))]
    /\ UNCHANGED <<cursor, stream, trace, iter, parser, input, result, pc, query, predicate, qm, ok, evaluated>>

\* qc.Captures(q, n, text) on the cursor of stream i
SharedCaptures(i) ==
    /\ pc = "shared" /\ streams[i].kind = "none"
    /\ \E cands \in SharedCandidates, budget \in {1, MaxBudget} :
           streams' = [streams EXCEPT ![i] = StreamState("captures", exec(cands, budget))]
    /\ UNCHANGED <<cursor, stream, trace, iter, parser, input, result, pc, query, predicate, qm, ok, evaluated>>

\* Next of stream i up to the return of the cursor's native call
SharedPull(i) ==
    /\ pc = "shared" /\ streams[i].kind # "none"
    /\ \/ streams[i].pos = "next"
       \/ streams[i].pos = "idle" /\ Len(streams[i].trace) < MaxNext
    /\ streams' = StreamPull(streams, i)
    /\ UNCHANGED <<cursor, stream, trace, iter, parser, input, result, pc, query, predicate, qm, ok, evaluated>>

\* Next of stream i from there to its return or to the head of its loop
SharedTest(i) ==
    /\ pc = "shared" /\ streams[i].pos = "pulled"
    /\ streams' = [streams EXCEPT ![i] = StreamTest(query, streams[i])]
    /\ UNCHANGED <<cursor, stream, trace, iter, parser, input, result, pc, query, predicate, qm, ok, evaluated>>

NextShared ==
    \E i \in 1..2 :
        SharedMatches(i) \/ SharedCaptures(i) \/ SharedPull(i) \/ SharedTest(i)

SpecShared == InitShared /\ [][NextShared]_vars

\* n calls of Next on a stream that runs alone
RECURSIVE Alone(_, _, _, _, _)
Alone(kind, q, c, tr, n) ==
    IF n = 0 THEN Returns(tr)
    ELSE LET r == IF kind = "matches" THEN QueryMatchesNext(q, c, tr)
                  ELSE QueryCapturesNext(q, c, tr)
         IN  Alone(kind, q, r.cursor, r.trace, n - 1)

SameAsAlone ==
    pc = "shared" =>
        \A i \in 1..2 :
            streams[i].trace =
                Alone(streams[i].kind, query, streams[i].start, <<>>,
                      Len(streams[i].trace))

\* C23: two streams on cursors of their own over one Query are independent:
\* however their Next calls interleave, each has returned what it returns
\* when it runs alone, and no step of a Next changes the Query.
C23_Independent == []SameAsAlone /\ [][query' = query]_vars

\* both streams have returned a result, the first then had a candidate
\* filtered out while the second stream was inside its Next
C23_Witness ==
    /\ pc = "shared"
    /\ streams[1].kind = "matches" /\ streams[2].kind = "captures"
    /\ Len(streams[1].trace) = 1 /\ Len(streams[2].trace) >= 1
    /\ streams[1].pos = "next" /\ streams[2].pos = "pulled"
    /\ streams[1].trace[1].m # Nil
    /\ streams[1].cursor # streams[2].cursor

----------------------------------------------------------------------------
(* Parser: ParseCtx, the goroutine it starts to watch the context, and the
   cancellation of contexts *)

ErrOperationLimit == <<"operation limit was hit">>

ErrNoLanguage == <<"cannot parse without language">>

\* context.Canceled
Canceled == <<"context canceled">>

NoErr == <<>>

\* a context: whether Done() is non-nil, whether it has been cancelled
Context(cancellable, cancelled) ==
    [cancellable |-> cancellable, cancelled |-> cancelled]

\* ctx.Err()
Err(ctx) == IF ctx.cancelled THEN Canceled ELSE NoErr

\* the trees ts_parser_parse_string may return (TRUE a tree, FALSE NULL):
\* NULL without a language; with one, a tree, or NULL when the timeout is
\* set and runs out or when the parser reads the cancellation flag, which
\* it does from time to time, and finds it set
ts_parser_parse_string(p) ==
    IF ~p.lang THEN {FALSE}
    ELSE {TRUE} \cup {FALSE : x \in {y \in {1} : p.limit \/ p.cancel # 0}}

Converted(cancel, tree, err) == [cancel |-> cancel, tree |-> tree, err |-> err]

\* convertTSTree asking for the language before the context
convertTSTreeLanguageFirst(p, ctx, tsTree) ==
    IF ~tsTree
    THEN IF ~p.lang THEN Converted(p.cancel, FALSE, ErrNoLanguage)
         ELSE IF Err(ctx) # NoErr THEN Converted(0, FALSE, Err(ctx))
         ELSE Converted(p.cancel, FALSE, ErrOperationLimit)
    ELSE Converted(p.cancel, TRUE, NoErr)

\* cancel is the flag as convertTSTree leaves it, tree whether the *Tree
\* returned is non-nil
convertTSTree(p, ctx, tsTree) ==
    IF ~tsTree
    THEN IF Err(ctx) # NoErr THEN Converted(0, FALSE, Err(ctx))
         ELSE IF ~p.lang THEN Converted(p.cancel, FALSE, ErrNoLanguage)
         ELSE Converted(p.cancel, FALSE, ErrOperationLimit)
    ELSE Converted(p.cancel, TRUE, NoErr)

\* what a ParseCtx got and gave: the native tree, the context's error, the
\* language and the timeout as they were, the tree and the error returned
Parsed(tsTree, ctxErr, lang, limit, tree, err) ==
    [tsTree |-> tsTree, ctxErr |-> ctxErr, lang |-> lang, limit |-> limit,
     tree |-> tree, err |-> err]

\* NewParser: the flag is 0, no language, no timeout.  ctxs, complete and
\* watchers have an entry for every ParseCtx so far: its context, whether
\* its parseComplete is closed, where its goroutine is
InitParser ==
    /\ pc = "parser"
    /\ parser = [cancel |-> 0, lang |-> FALSE, limit |-> FALSE, main |-> "idle",
                 tsTree |-> FALSE, ctxs |-> <<>>, complete |-> <<>>,
                 watchers |-> <<>>, results |-> <<>>]
    /\ query = NoQuery
    /\ streams = NoStreams
    /\ cursor = NoCursor
    /\ stream = "none"
    /\ trace = <<>>
    /\ predicate = NoPredicate
    /\ qm = Nil
    /\ ok = FALSE
    /\ evaluated = <<>>
    /\ input = NoInput
    /\ result = NoResult
    /\ iter = NoIterator

ParserOnly ==
    UNCHANGED <<pc, query, streams, cursor, stream, trace, predicate, qm, ok,
                evaluated, input, result, iter>>

SetLanguage ==
    /\ pc = "parser" /\ parser.main = "idle" /\ ~parser.lang
    /\ parser' = [parser EXCEPT !.lang = TRUE]
    /\ ParserOnly

SetOperationLimit ==
    /\ pc = "parser" /\ parser.main = "idle"
    /\ \E limit \in BOOLEAN :
           limit # parser.limit /\ parser' = [parser EXCEPT !.limit = limit]
    /\ ParserOnly

\* ParseCtx up to the call of ts_parser_parse_string
ParseCtx ==
    /\ pc = "parser" /\ parser.main = "idle"
    /\ Len(parser.ctxs) < MaxParses
    /\ \E cancellable \in BOOLEAN :
           parser' = [parser EXCEPT
               !.ctxs = Append(@, Context(cancellable, FALSE)),
               !.complete = Append(@, FALSE),
               !.watchers = Append(@, IF cancellable THEN "select" ELSE "none"),
               !.main = "parsing"]
    /\ ParserOnly

\* the cancel function of the context of parse k, called by the caller
Cancel(k) ==
    /\ pc = "parser"
    /\ parser.ctxs[k].cancellable /\ ~parser.ctxs[k].cancelled
    /\ parser' = [parser EXCEPT !.ctxs[k].cancelled = TRUE]
    /\ ParserOnly

\* the goroutine of parse k takes the case <-ctx.Done() of its select
WatcherCancels(k) ==
    /\ pc = "parser"
    /\ parser.watchers[k] = "select" /\ parser.ctxs[k].cancelled
    /\ parser' = [parser EXCEPT !.cancel = 1, !.watchers[k] = "done"]
    /\ ParserOnly

\* the goroutine of parse k takes the case <-parseComplete
WatcherReturns(k) ==
    /\ pc = "parser"
    /\ parser.watchers[k] = "select" /\ parser.complete[k]
    /\ parser' = [parser EXCEPT !.watchers[k] = "done"]
    /\ ParserOnly

\* ts_parser_parse_string returns
ParseString ==
    /\ pc = "parser" /\ parser.main = "parsing"
    /\ \E tsTree \in ts_parser_parse_string(parser) :
           parser' = [parser EXCEPT !.tsTree = tsTree, !.main = "parsed"]
    /\ ParserOnly

\* close(parseComplete)
CloseParseComplete ==
    /\ pc = "parser" /\ parser.main = "parsed"
    /\ parser' = [parser EXCEPT !.complete[Len(parser.ctxs)] = TRUE,
                                !.main = "closed"]
    /\ ParserOnly

\* return p.convertTSTree(ctx, baseTree)
ConvertTSTree ==
    /\ pc = "parser" /\ parser.main = "closed"
    /\ LET ctx == parser.ctxs[Len(parser.ctxs)]
           r == convertTSTree(parser, ctx, parser.tsTree)
       IN  parser' = [parser EXCEPT
               !.cancel = r.cancel,
               !.results = Append(@, Parsed(parser.tsTree, Err(ctx), parser.lang,
                                            parser.limit, r.tree, r.err)),
               !.main = "idle"]
    /\ ParserOnly

NextParser ==
    \/ SetLanguage
    \/ SetOperationLimit
    \/ ParseCtx
    \/ \E k \in 1..Len(parser.ctxs) : Cancel(k)
    \/ \E k \in 1..Len(parser.ctxs) : WatcherCancels(k)
    \/ \E k \in 1..Len(parser.ctxs) : WatcherReturns(k)
    \/ ParseString
    \/ CloseParseComplete
    \/ ConvertTSTree

SpecParser == InitParser /\ [][NextParser]_vars

\* C24: once a ParseCtx has returned the cancellation flag is 0, and a parse
\* that follows another, with a context that cannot be cancelled, a language
\* and no timeout, returns a tree.
C24_ReusableAfterCancel ==
    pc = "parser" =>
        /\ parser.main = "idle" /\ parser.results # <<>> => parser.cancel = 0
        /\ \A k \in 2..Len(parser.results) :
               /\ ~parser.ctxs[k].cancellable
               /\ parser.results[k].lang /\ ~parser.results[k].limit
               => parser.results[k].tree /\ parser.results[k].err = NoErr

\* C25: a ParseCtx whose native parse gave no tree returns a nil tree and
\* the context's error if the context is done, else ErrNoLanguage if the
\* parser has no language, else ErrOperationLimit; one whose native parse
\* gave a tree returns a tree and a nil error.
C25_ErrorOrder ==
    pc = "parser" =>
        \A k \in 1..Len(parser.results) :
            LET r == parser.results[k]
            IN  IF r.tsTree THEN r.tree /\ r.err = NoErr
                ELSE /\ ~r.tree
                     /\ r.err = IF r.ctxErr # NoErr THEN r.ctxErr
                                ELSE IF ~r.lang THEN ErrNoLanguage
                                ELSE ErrOperationLimit

\* a parse without a language whose context was cancelled, another that ran
\* into the timeout
C25_Witness ==
    /\ pc = "parser" /\ Len(parser.results) = 2
    /\ ~parser.results[1].tsTree /\ ~parser.results[1].lang
    /\ parser.results[1].err = Canceled
    /\ parser.results[2].err = ErrOperationLimit

----------------------------------------------------------------------------
(* Iterator *)

DFSMode == 0

BFSMode == 1

\* io.EOF
EOF == <<"EOF">>

\* the error of a callback that fails
ErrCallback == <<"callback failed">>

\* a tree of the nodes 1..Len(parent) with the root 1: the parent of a node
\* (0 for the root) and whether the node is named, which the root is; the
\* children of a node stand from left to right in the order of their numbers
SyntaxTree(parent, named) == [parent |-> parent, named |-> named]

Trees ==
    UNION {{SyntaxTree(parent, named) :
               parent \in {f \in [1..n -> 0..(n - 1)] :
                              f[1] = 0 /\ \A i \in 2..n : f[i] \in 1..(i - 1)},
               named \in {f \in [1..n -> BOOLEAN] : f[1]}} : n \in 1..MaxNodes}

\* the nil *Node
NilNode == 0

RECURSIVE childrenFrom(_, _, _)
childrenFrom(t, n, j) ==
    IF j > Len(t.parent) THEN <<>>
    ELSE IF t.parent[j] = n THEN <<j>> \o childrenFrom(t, n, j + 1)
    ELSE childrenFrom(t, n, j + 1)

ChildCount(t, n) == Len(childrenFrom(t, n, 1))

Child(t, n, idx) == childrenFrom(t, n, 1)[idx + 1]

namedChildren(t, n) == SelectSeq(childrenFrom(t, n, 1), LAMBDA c : t.named[c])

NamedChildCount(t, n) == Len(namedChildren(t, n))

NamedChild(t, n, idx) == namedChildren(t, n)[idx + 1]

\* an Iterator on the tree t
Iterator(t, nodesToVisit, mode, named) ==
    [t |-> t, nodesToVisit |-> nodesToVisit, mode |-> mode, named |-> named]

NewIterator(t, n, mode) == Iterator(t, <<n>>, mode, FALSE)

NewNamedIterator(t, n, mode) == Iterator(t, <<n>>, mode, TRUE)

Visited(it, n, err) == [iter |-> it, n |-> n, err |-> err]

\* Next putting the children behind the nodes to visit in both modes
IteratorNextBehind(it) ==
    IF Len(it.nodesToVisit) = 0 THEN Visited(it, NilNode, EOF)
    ELSE LET n == it.nodesToVisit[1]
             rest == Tail(it.nodesToVisit)
             children ==
                 IF it.named
                 THEN [i \in 1..NamedChildCount(it.t, n) |-> NamedChild(it.t, n, i - 1)]
                 ELSE [i \in 1..ChildCount(it.t, n) |-> Child(it.t, n, i - 1)]
         IN  IF it.mode \in {DFSMode, BFSMode}
             THEN Visited([it EXCEPT !.nodesToVisit = rest \o children], n, NoErr)
             ELSE Visited(it, NilNode, <<"panic: not implemented">>)

IteratorNext(it) ==
    IF Len(it.nodesToVisit) = 0 THEN Visited(it, NilNode, EOF)
    ELSE LET n == it.nodesToVisit[1]
             rest == Tail(it.nodesToVisit)
             children ==
                 IF it.named
                 THEN [i \in 1..NamedChildCount(it.t, n) |-> NamedChild(it.t, n, i - 1)]
                 ELSE [i \in 1..ChildCount(it.t, n) |-> Child(it.t, n, i - 1)]
         IN  IF it.mode = DFSMode
             THEN Visited([it EXCEPT !.nodesToVisit = children \o rest], n, NoErr)
             ELSE IF it.mode = BFSMode
             THEN Visited([it EXCEPT !.nodesToVisit = rest \o children], n, NoErr)
             ELSE Visited(it, NilNode, <<"panic: not implemented">>)

\* ForEach with a callback that fails on its stop-th call, if stop is not 0;
\* called is the nodes the callback has been called with
RECURSIVE IteratorForEach(_, _, _)
IteratorForEach(it, called, stop) ==
    LET r == IteratorNext(it)
    IN  IF r.err # NoErr THEN [iter |-> r.iter, called |-> called, err |-> r.err]
        ELSE IF Len(called) + 1 = stop
        THEN [iter |-> r.iter, called |-> Append(called, r.n), err |-> ErrCallback]
        ELSE IteratorForEach(r.iter, Append(called, r.n), stop)

NoForEach == [done |-> FALSE, called |-> <<>>, err |-> NoErr, stop |-> 0]

\* an Iterator new on the root of a tree or on the root's first child, with
\* what its Next calls returned and what its ForEach did
InitIter ==
    /\ pc = "iter"
    /\ \E t \in Trees : \E n \in 1..Len(t.parent), mode \in {DFSMode, BFSMode} :
           n <= 2 /\
           \E it \in {NewIterator(t, n, mode), NewNamedIterator(t, n, mode)} :
               iter = [it |-> it, start |-> n, returned |-> <<>>,
                       forEach |-> NoForEach]
    /\ parser = NoParser
    /\ query = NoQuery
    /\ streams = NoStreams
    /\ cursor = NoCursor
    /\ stream = "none"
    /\ trace = <<>>
    /\ predicate = NoPredicate
    /\ qm = Nil
    /\ ok = FALSE
    /\ evaluated = <<>>
    /\ input = NoInput
    /\ result = NoResult

IterOnly ==
    UNCHANGED <<pc, query, streams, cursor, stream, trace, predicate, qm, ok,
                evaluated, input, result, parser>>

IsEOF(r) == r.err = EOF

\* iter.Next(), until it has returned io.EOF
IterNext ==
    /\ pc = "iter" /\ ~iter.forEach.done
    /\ SelectSeq(iter.returned, IsEOF) = <<>>
    /\ LET r == IteratorNext(iter.it)
       IN  iter' = [iter EXCEPT !.it = r.iter,
                                !.returned = Append(@, [n |-> r.n, err |-> r.err])]
    /\ IterOnly

\* iter.ForEach(fn)
IterForEach ==
    /\ pc = "iter" /\ ~iter.forEach.done
    /\ \E stop \in {0, 2} :
           LET r == IteratorForEach(iter.it, <<>>, stop)
           IN  iter' = [iter EXCEPT
                   !.it = r.iter,
                   !.forEach = [done |-> TRUE, called |-> r.called,
                                err |-> r.err, stop |-> stop]]
    /\ IterOnly

NextIter == IterNext \/ IterForEach

SpecIter == InitIter /\ [][NextIter]_vars

\* the children an iterator follows
Followed(t, n, named) ==
    IF named THEN namedChildren(t, n) ELSE childrenFrom(t, n, 1)

\* a node, then the subtrees of its children from left to right
RECURSIVE PreOrder(_, _, _)
RECURSIVE PreOrderAll(_, _, _)
PreOrder(t, n, named) == <<n>> \o PreOrderAll(t, Followed(t, n, named), named)

PreOrderAll(t, ns, named) ==
    IF ns = <<>> THEN <<>>
    ELSE PreOrder(t, Head(ns), named) \o PreOrderAll(t, Tail(ns), named)

\* the number of steps from the node up to the start
RECURSIVE Depth(_, _, _)
Depth(t, start, n) == IF n = start THEN 0 ELSE 1 + Depth(t, start, t.parent[n])

\* the nodes of depth d from left to right, for d = 0, 1, ...
RECURSIVE LevelOrder(_, _, _, _)
LevelOrder(t, start, named, d) ==
    LET level == SelectSeq(PreOrder(t, start, named),
                           LAMBDA n : Depth(t, start, n) = d)
    IN  IF level = <<>> THEN <<>>
        ELSE level \o LevelOrder(t, start, named, d + 1)

InOrder ==
    IF iter.it.mode = DFSMode THEN PreOrder(iter.it.t, iter.start, iter.it.named)
    ELSE LevelOrder(iter.it.t, iter.start, iter.it.named, 0)

\* the nodes the Next calls returned
NextNodes ==
    LET nodes == SelectSeq(iter.returned, LAMBDA r : r.err = NoErr)
    IN  [i \in 1..Len(nodes) |-> nodes[i].n]

\* C26: the Next calls return the nodes of the start node's subtree, each
\* once, the start first, in pre-order in DFS mode and in level order in BFS
\* mode, over named children only for a named iterator, and io.EOF after the
\* last; ForEach calls its function on the nodes in that order and ends with
\* io.EOF.
C26_IterationOrder ==
    pc = "iter" =>
        /\ \A i \in 1..Len(iter.returned) :
               IF i <= Len(InOrder)
               THEN iter.returned[i].n = InOrder[i] /\ iter.returned[i].err = NoErr
               ELSE iter.returned[i].n = NilNode /\ iter.returned[i].err = EOF
        /\ iter.forEach.done /\ iter.forEach.stop = 0 =>
               /\ NextNodes \o iter.forEach.called = InOrder
               /\ iter.forEach.err = EOF

\* a Next, then a ForEach to the end, on a tree of four nodes whose pre-order
\* is not its level order
C26_Witness ==
    /\ pc = "iter"
    /\ iter.forEach.done /\ iter.forEach.stop = 0
    /\ Len(NextNodes) = 1 /\ Len(iter.forEach.called) = 3
    /\ PreOrder(iter.it.t, iter.start, iter.it.named)
           # LevelOrder(iter.it.t, iter.start, iter.it.named, 0)

====
